---- MODULE Spec2Model ----
(***************************************************************************)
(* State-machine model of the tile world of handmade_ferris: the chunked   *)
(* coordinate (AbsoluteTile), WorldPosition canonicalization, the tile map *)
(* and world registry with procedural generation, and entity movement.     *)
(*                                                                         *)
(* f32 quantities (tile_rel, velocity) are kept in fixed point, in units   *)
(* of 1/UnitsPerTile of a tile; a u32 AbsoluteTile word is kept as its     *)
(* upper 24 bits (hi) and lower 8 bits (lo), because the word itself does  *)
(* not fit the model checker's integers.                                   *)
(***************************************************************************)
EXTENDS Integers, Sequences, FiniteSets, TLC

(***************************************************************************)
(* Program constants                                                       *)
(***************************************************************************)
TILE_MAP_COLUMNS == 16
TILE_MAP_ROWS == 9
CHUNK_SHIFT == 8
CHUNK_MASK == 255
\* (u32::MAX >> CHUNK_SHIFT)
MAX_NUM_CHUNKS == 16777215
PREALLOC_TILE_MAPS == 16
\* 2 * 1024 * 1024
MEMORY_LENGTH == 2097152
\* size_of::<TileMap<16, 9>>(): TILE_MAP_ROWS rows of TILE_MAP_COLUMNS one-byte TileTypes
SIZE_OF_TILE_MAP == 144
\* size_of::<World<16, 9>>(): 16 pointers, 16 Option<(Vector2<u32>, u8)> of 16 bytes,
\* a usize and an f32, padded to 8 bytes
SIZE_OF_WORLD == 400

\* let player_speed = Meters::new(18.0)
PLAYER_SPEED == 18
\* let friction_const = 1.0
FRICTION_CONST == 1
\* WallReaction::Grind = 1
REACTION_CONST == 1
\* 1000 / MILLISECONDS_PER_FRAME: the frames per second, delta_t = 1 / FRAMES_PER_SECOND
FRAMES_PER_SECOND == 30
\* 2^(32 - CHUNK_SHIFT): the number of values of the upper 24 bits of a u32
HiRange == 16777216
\* CHUNK_MASK + 1: the number of values of the lower 8 bits
LoRange == CHUNK_MASK + 1

(***************************************************************************)
(* Bounds of the model                                                     *)
(***************************************************************************)
\* from_chunk_offset is tried with offsets 0..MaxOffsetArg (beyond both axes' MAX_OFFSET)
MaxOffsetArg == 17
\* from_chunk_offset is tried with chunks 0..MaxChunkArg and the values around MAX_NUM_CHUNKS
MaxChunkArg == 1
\* adjust is tried with every val in -MaxAdjustArg..MaxAdjustArg
MaxAdjustArg == 2
\* at most MaxTileCalls calls are made on the AbsoluteTile under test
MaxTileCalls == 3
\* fixed point: the number of tile_rel units in one tile (TILE_SIDE_IN_METERS = 1.0)
UnitsPerTile == 50
\* canonicalize is tried with every tile_rel component in -MaxRelArg..MaxRelArg
MaxRelArg == 100
\* SpecWorld: get_tilemap_at is called for the chunks (0, 0) .. (MaxWorldChunk, 0)
MaxWorldChunk == 1
\* SpecWorld: get_tilemap_at is called while fewer than MaxWorldMaps slots are populated
MaxWorldMaps == 2
\* SpecCapacity: the registry starts with PrefillMaps tile maps, those of the chunks
\* (0, 0), (1, 0), ... on floor 0 and floor 1
PrefillMaps == 14
\* SpecMemory: the 16-byte blocks left in the memory at the start, the largest
\* size_of::<T>() allocated and the number of Memory::alloc calls
FreeBlocks == 2

MaxAllocSize == 17

MaxAllocCalls == 3

\* Spec: at most MaxTicks frames are played
MaxTicks == 8
\* SpecLadder: at most MaxLadderTicks frames are played
MaxLadderTicks == 5
\* SpecPush: at most MaxPushTicks frames are played
MaxPushTicks == 12
\* SpecOrder: the number of entities
OrderEntities == 2
\* SpecOrder: at most MaxOrderTicks frames are played
MaxOrderTicks == 2
\* SpecReplay: at most MaxReplayTicks frames are played
MaxReplayTicks == 6
\* SpecRun: the run lasts at most MaxRunTicks frames
MaxRunTicks == 150
\* SpecRun: at most MaxFreeFrames frames are played after the run
MaxFreeFrames == 1

VARIABLES
    tile,       \* SpecTile: the AbsoluteTile under test
    tileMax,    \* SpecTile: MAX_OFFSET of its type (TILE_MAP_COLUMNS or TILE_MAP_ROWS)
    tileOp,     \* SpecTile: the last call made on it, its arguments and the tile before it
    tileCalls,  \* SpecTile: the number of calls made so far
    cpos,       \* SpecCanon: the WorldPosition under test
    cOp,        \* SpecCanon: whether canonicalize was called, the position before it, its outcome
    world,      \* the World at the start of the game memory
    memory,     \* the Memory: next_allocation and data_len
    rng_calls,  \* the number of Rng::next calls made since State::reset
    panic,      \* "none", or the message of the panic that aborted the process
    worldOp,    \* SpecWorld, SpecCapacity: the last get_tilemap_at call: its arguments, the
                \* World, Memory and Rng calls before it and the slot it returned
    entity,     \* Spec: the entity (the player): position, velocity, direction
    ticks,      \* Spec: the number of frames played
    tickOp,     \* Spec: the last frame's move: the entity before it, the acceleration
                \* passed to move_entity, the tentative position, the destination tile
                \* and whether the move was valid
    freeFrames, \* SpecRun: the number of frames played after the run
    tmap,       \* SpecTileMap: the TileMap under test
    mapOp,      \* SpecTileMap: the last get_tile_at or set_tile_at call: its arguments,
                \* the TileMap before it, the tile read and the build's overflow checks
    allocs,     \* SpecMemory: the allocations made so far, in order: offset and size
    allocOp,    \* SpecMemory: the last Memory::alloc call: its size, the Memory before
                \* it and the offset returned
    seed,       \* SpecOrder, SpecReplay: the state of the Rng when State::reset built it
    entities,   \* SpecOrder: state.entities, with state.entity_alive
    orderOp,    \* SpecOrder: the last frame: the other order tried for the entities and
                \* what the frame gives when they are processed in that order
    looping,    \* SpecReplay: main's GameplayState
    looping_state,  \* SpecReplay: main's LoopState
    firstPass   \* SpecReplay: the core state after each frame of the recording

tileVars == <<tile, tileMax, tileOp, tileCalls>>
canonVars == <<cpos, cOp>>
worldVars == <<world, memory, rng_calls, panic, worldOp>>
gameVars == <<entity, ticks, tickOp, freeFrames>>
mapVars == <<tmap, mapOp>>
arenaVars == <<allocs, allocOp>>
platformVars == <<seed, entities, orderOp, looping, looping_state, firstPass>>
vars == <<tile, tileMax, tileOp, tileCalls, cpos, cOp, world, memory, rng_calls, panic,
         freeFrames,
          worldOp, entity, ticks, tickOp, tmap, mapOp, allocs, allocOp,
          seed, entities, orderOp, looping, looping_state, firstPass>>

(***************************************************************************)
(* AbsoluteTile<MAX_CHUNK_ID, MAX_OFFSET>(u32)                             *)
(***************************************************************************)
\* faulty variant: the offset is masked with 0x7 instead of CHUNK_MASK
from_chunk_offset_mask7(chunk, offset) ==
    [hi |-> chunk % HiRange, lo |-> offset % 8]

\* (chunk << CHUNK_SHIFT) | (offset & CHUNK_MASK): the shift drops the top 8 bits of chunk
from_chunk_offset(chunk, offset) ==
    [hi |-> chunk % HiRange, lo |-> offset % LoRange]

\* Chunk { chunk_id: self.0 >> CHUNK_SHIFT, offset: (self.0 & CHUNK_MASK) as u16 }
into_chunk(t) ==
    [chunk_id |-> t.hi, offset |-> t.lo]

\* impl From<Chunk> for AbsoluteTile
from_chunk(c) ==
    [hi |-> c.chunk_id % HiRange, lo |-> c.offset % LoRange]

\* faulty variant: the chunk id is not wrapped to 0 at MAX_CHUNK_ID
adjust_inc_nowrap(c, MAX_CHUNK_ID, MAX_OFFSET) ==
    IF c.offset + 1 = MAX_OFFSET
    THEN [chunk_id |-> c.chunk_id + 1, offset |-> 0]
    ELSE [chunk_id |-> c.chunk_id, offset |-> c.offset + 1]

\* the Chunk that adjust(1) writes back
adjust_inc(c, MAX_CHUNK_ID, MAX_OFFSET) ==
    IF c.offset + 1 = MAX_OFFSET
    THEN [chunk_id |-> IF c.chunk_id + 1 = MAX_CHUNK_ID THEN 0 ELSE c.chunk_id + 1,
          offset |-> 0]
    ELSE [chunk_id |-> c.chunk_id, offset |-> c.offset + 1]

\* the Chunk that adjust(-1) writes back
adjust_dec(c, MAX_CHUNK_ID, MAX_OFFSET) ==
    IF c.offset = 0
    THEN [chunk_id |-> IF c.chunk_id = 0 THEN MAX_CHUNK_ID - 1 ELSE c.chunk_id - 1,
          offset |-> MAX_OFFSET - 1]
    ELSE [chunk_id |-> c.chunk_id, offset |-> c.offset - 1]

\* faulty variant: no assertion on val, any positive val steps up and any negative val steps down
adjust_unchecked(t, val, MAX_CHUNK_ID, MAX_OFFSET) ==
    IF val = 0 THEN [tile |-> t, panic |-> FALSE]
    ELSE IF val > 0
         THEN [tile |-> from_chunk(adjust_inc(into_chunk(t), MAX_CHUNK_ID, MAX_OFFSET)),
               panic |-> FALSE]
         ELSE [tile |-> from_chunk(adjust_dec(into_chunk(t), MAX_CHUNK_ID, MAX_OFFSET)),
               panic |-> FALSE]

\* adjust(&mut self, val): the tile afterwards, and whether the assertion failed
adjust(t, val, MAX_CHUNK_ID, MAX_OFFSET) ==
    IF val = 0 THEN [tile |-> t, panic |-> FALSE]
    ELSE IF ~(val = 1 \/ val = -1) THEN [tile |-> t, panic |-> TRUE]
    ELSE IF val = 1
         THEN [tile |-> from_chunk(adjust_inc(into_chunk(t), MAX_CHUNK_ID, MAX_OFFSET)),
               panic |-> FALSE]
         ELSE [tile |-> from_chunk(adjust_dec(into_chunk(t), MAX_CHUNK_ID, MAX_OFFSET)),
               panic |-> FALSE]

(***************************************************************************)
(* WorldPosition { tile_map_x, tile_map_y, z, tile_rel }                   *)
(***************************************************************************)
Abs(n) == IF n < 0 THEN 0 - n ELSE n

Sign(n) == IF n < 0 THEN -1 ELSE IF n > 0 THEN 1 ELSE 0

\* faulty variant: any fraction of a tile is rounded away from zero (ceil of the magnitude)
round_away(x) ==
    Sign(x) * ((Abs(x) + UnitsPerTile - 1) \div UnitsPerTile)

\* f32::round() as i32 of a fixed-point value: the nearest whole number of tiles,
\* halves rounded away from zero
round(x) ==
    Sign(x) * ((2 * Abs(x) + UnitsPerTile) \div (2 * UnitsPerTile))

\* faulty variant: tile_rel += tile_rel.round()
sub_round_plus(x) ==
    x + round(x) * UnitsPerTile

\* tile_rel -= tile_rel.round()
sub_round(x) ==
    x - round(x) * UnitsPerTile

\* assert!(tile_rel >= Meters(-1.5) && tile_rel <= Meters(1.5))
canon_precondition(x) ==
    2 * x >= 0 - 3 * UnitsPerTile /\ 2 * x <= 3 * UnitsPerTile

\* *self.tile_rel <= -1.0 || *self.tile_rel >= 1.0
canon_bad(x) ==
    x <= 0 - UnitsPerTile \/ x >= UnitsPerTile

\* canonicalize(&mut self): the position when the call returns or aborts, and the
\* abort ("none" when it returns): the two entry assertions, adjust's assertion, or
\* the final "Bad x" / "Bad y" panics
canonicalize(p) ==
    IF ~canon_precondition(p.tile_rel.x) \/ ~canon_precondition(p.tile_rel.y)
    THEN [pos |-> p, panic |-> "precondition"]
    ELSE
    LET ax == adjust(p.tile_map_x, round(p.tile_rel.x), MAX_NUM_CHUNKS, TILE_MAP_COLUMNS)
        p1 == [p EXCEPT !.tile_map_x = ax.tile, !.tile_rel.x = sub_round(p.tile_rel.x)]
        ay == adjust(p1.tile_map_y, round(p1.tile_rel.y), MAX_NUM_CHUNKS, TILE_MAP_ROWS)
        p2 == [p1 EXCEPT !.tile_map_y = ay.tile, !.tile_rel.y = sub_round(p1.tile_rel.y)]
    IN  IF ax.panic THEN [pos |-> p, panic |-> "adjust"]
        ELSE IF ay.panic THEN [pos |-> p1, panic |-> "adjust"]
        ELSE IF canon_bad(p2.tile_rel.x) THEN [pos |-> p2, panic |-> "Bad x"]
        ELSE IF canon_bad(p2.tile_rel.y) THEN [pos |-> p2, panic |-> "Bad y"]
        ELSE [pos |-> p2, panic |-> "none"]

\* State::reset: the player's position
reset_position ==
    [tile_map_x |-> from_chunk_offset(0, 5),
     tile_map_y |-> from_chunk_offset(0, 6),
     z |-> 0,
     tile_rel |-> [x |-> 0, y |-> 0]]

(***************************************************************************)
(* Memory: the bump allocator                                              *)
(***************************************************************************)
\* faulty variant: the next allocation is not aligned
align16_none(n) == n

\* (next_allocation + 0xf) & !0xf
align16(n) == ((n + 15) \div 16) * 16

\* Memory::alloc::<T>() with size = size_of::<T>(): the memory afterwards, the offset
\* returned and the abort
alloc(mem, size) ==
    IF ~(mem.next_allocation + size < mem.data_len)
    THEN [memory |-> mem, result |-> mem.next_allocation, panic |-> "Out of game memory"]
    ELSE [memory |-> [mem EXCEPT !.next_allocation = align16(mem.next_allocation + size)],
          result |-> mem.next_allocation, panic |-> "none"]

(***************************************************************************)
(* TileMap<WIDTH, HEIGHT> { data: [[TileType; WIDTH]; HEIGHT] }            *)
(***************************************************************************)
TileType == {"Empty", "Wall", "Ladder"}

\* the bytes of a fresh allocation: the arena is an anonymous mapping, zero filled, and
\* TileType::Empty is 0
zeroed_tile_map ==
    [row \in 0..(TILE_MAP_ROWS - 1) |-> [col \in 0..(TILE_MAP_COLUMNS - 1) |-> "Empty"]]

\* get_tile_at(&self, pos): y = HEIGHT - 1 - pos.y (usize), then data.get(y), .get(x)
get_tile_at(tm, pos) ==
    IF TILE_MAP_ROWS - 1 - pos.y < 0 \/ TILE_MAP_ROWS - 1 - pos.y >= TILE_MAP_ROWS
    THEN [tile |-> "Empty", panic |-> "larger than HEIGHT"]
    ELSE IF pos.x >= TILE_MAP_COLUMNS
    THEN [tile |-> "Empty", panic |-> "larger than WIDTH"]
    ELSE [tile |-> tm[TILE_MAP_ROWS - 1 - pos.y][pos.x], panic |-> "none"]

\* faulty variant: the row is not inverted, the tile is stored in row y of the data
set_tile_at_top_down(tm, x, y, val) ==
    IF y >= TILE_MAP_ROWS
    THEN [tm |-> tm, panic |-> "larger than HEIGHT"]
    ELSE IF x >= TILE_MAP_COLUMNS
    THEN [tm |-> tm, panic |-> "larger than WIDTH"]
    ELSE [tm |-> [tm EXCEPT ![y][x] = val], panic |-> "none"]

\* faulty variant: every write stores a Wall
set_tile_at_wall(tm, x, y, val) ==
    [tm |-> [tm EXCEPT ![TILE_MAP_ROWS - 1 - y][x] = "Wall"], panic |-> "none"]

\* set_tile_at(&mut self, x, y, val)
set_tile_at(tm, x, y, val) ==
    IF TILE_MAP_ROWS - 1 - y < 0 \/ TILE_MAP_ROWS - 1 - y >= TILE_MAP_ROWS
    THEN [tm |-> tm, panic |-> "larger than HEIGHT"]
    ELSE IF x >= TILE_MAP_COLUMNS
    THEN [tm |-> tm, panic |-> "larger than WIDTH"]
    ELSE [tm |-> [tm EXCEPT ![TILE_MAP_ROWS - 1 - y][x] = val], panic |-> "none"]

(***************************************************************************)
(* The outcomes of the Rng that the model tries                            *)
(***************************************************************************)
\* the interior cells where the model lets rng.next() % 64 be 0 (a cell next to the
\* player's start and the cell above the start); at every other cell it is not 0
LadderSites == {<<6, 6>>, <<5, 7>>}

\* the interior cells where the model lets rng.next() % 16 be 0 (the player's start and
\* the cell above it); at every other cell it is not 0
WallSites == {<<5, 6>>, <<5, 7>>}

\* the outcomes for the generation of one map: the % 64 draw is made until it first
\* succeeds, so what it yields is that first cell or no cell; the % 16 draw is made at
\* every other interior cell
DrawsOfMap ==
    [ladder : {{}} \cup {{site} : site \in LadderSites}, wall : SUBSET WallSites]

\* the draws of one call: the outcomes for the map generated on floor 0 and on floor 1
Draws == [0..1 -> DrawsOfMap]

NoDraw == [ladder |-> {}, wall |-> {}]

\* the Rng yields no Ladder and no interior Wall
NoDraws == {[f \in 0..1 |-> NoDraw]}

(***************************************************************************)
(* World { tile_maps, tile_map_indexes, next_tile_map_index }              *)
(*                                                                         *)
(* The operations work on a context c = [world, memory, rng_calls, panic,  *)
(* ret]: the World, the Memory, the number of Rng::next calls made, the    *)
(* abort ("none" while running) and the slot of the tile map returned.     *)
(* The outcomes of the Rng draws are given by draws: for the map generated *)
(* on floor z, draws[z].ladder is the set of interior cells <<x, y>> where *)
(* rng.next() % 64 would be 0 and draws[z].wall the set where              *)
(* rng.next() % 16 would be 0.                                             *)
(***************************************************************************)
Slots == 0..(PREALLOC_TILE_MAPS - 1)

\* Option<(Vector2<u32>, u8)>: None, and Some((pos, z))
None == <<>>

Some(pos, z) == <<[pos |-> pos, z |-> z]>>

\* Allocation::default(): no tile map
null == <<>>

\* World::init
init_world ==
    [tile_maps |-> [i \in Slots |-> null],
     tile_map_indexes |-> [i \in Slots |-> None],
     next_tile_map_index |-> 0]

\* faulty variant: when no slot is left, the tile map of slot 0 is evicted and its slot
\* is given to (pos, z)
alloc_tilemap_at_evict(c, pos, z) ==
    IF ~(c.world.next_tile_map_index < PREALLOC_TILE_MAPS)
    THEN [c EXCEPT !.world.tile_map_indexes[0] = Some(pos, z),
                   !.world.tile_maps[0] = zeroed_tile_map,
                   !.ret = 0]
    ELSE
    LET curr_tile_index == c.world.next_tile_map_index
        a == alloc(c.memory, SIZE_OF_TILE_MAP)
    IN  IF a.panic # "none"
        THEN [c EXCEPT !.world.tile_map_indexes[curr_tile_index] = Some(pos, z),
                       !.panic = a.panic]
        ELSE [c EXCEPT !.world.tile_map_indexes[curr_tile_index] = Some(pos, z),
                       !.world.tile_maps[curr_tile_index] = zeroed_tile_map,
                       !.world.next_tile_map_index = curr_tile_index + 1,
                       !.memory = a.memory,
                       !.ret = curr_tile_index]

\* alloc_tilemap_at(&mut self, memory, pos, z)
alloc_tilemap_at(c, pos, z) ==
    IF ~(c.world.next_tile_map_index < PREALLOC_TILE_MAPS)
    THEN [c EXCEPT !.panic = "Out of tile map slot"]
    ELSE
    LET curr_tile_index == c.world.next_tile_map_index
        a == alloc(c.memory, SIZE_OF_TILE_MAP)
    IN  IF a.panic # "none"
        THEN [c EXCEPT !.world.tile_map_indexes[curr_tile_index] = Some(pos, z),
                       !.panic = a.panic]
        ELSE [c EXCEPT !.world.tile_map_indexes[curr_tile_index] = Some(pos, z),
                       !.world.tile_maps[curr_tile_index] = zeroed_tile_map,
                       !.world.next_tile_map_index = curr_tile_index + 1,
                       !.memory = a.memory,
                       !.ret = curr_tile_index]

\* one iteration of init_tile_map's loops, for the cell (x, y); st = [tm, ladder_set,
\* other_floor, rng_calls]
init_cell(st, x, y, d) ==
    IF y = 0 \/ y = TILE_MAP_ROWS - 1
    THEN LET mid_point == TILE_MAP_COLUMNS \div 2 IN
         IF x \in (mid_point - 1)..(mid_point + 1)
         THEN [st EXCEPT !.tm = set_tile_at(st.tm, x, y, "Empty").tm]
         ELSE [st EXCEPT !.tm = set_tile_at(st.tm, x, y, "Wall").tm]
    ELSE IF x = 0 \/ x = TILE_MAP_COLUMNS - 1
    THEN LET mid_point == TILE_MAP_ROWS \div 2 IN
         IF y \in (mid_point - 1)..(mid_point + 1)
         THEN [st EXCEPT !.tm = set_tile_at(st.tm, x, y, "Empty").tm]
         ELSE [st EXCEPT !.tm = set_tile_at(st.tm, x, y, "Wall").tm]
    ELSE IF ~st.ladder_set /\ <<x, y>> \in d.ladder
    THEN [st EXCEPT !.tm = set_tile_at(st.tm, x, y, "Ladder").tm,
                    !.other_floor = <<x, y>>,
                    !.ladder_set = TRUE,
                    !.rng_calls = st.rng_calls + 1]
    ELSE IF <<x, y>> \in d.wall
    THEN [st EXCEPT !.tm = set_tile_at(st.tm, x, y, "Wall").tm,
                    !.rng_calls = st.rng_calls + (IF st.ladder_set THEN 1 ELSE 2)]
    ELSE [st EXCEPT !.rng_calls = st.rng_calls + (IF st.ladder_set THEN 1 ELSE 2)]

\* for x in 0..TILE_MAP_COLUMNS { ... }, from column x of row y
RECURSIVE init_row(_, _, _, _)
init_row(st, x, y, d) ==
    IF x = TILE_MAP_COLUMNS THEN st
    ELSE LET next == init_cell(st, x, y, d) IN
         IF next.ladder_set \in BOOLEAN THEN init_row(next, x + 1, y, d) ELSE st

\* for y in 0..TILE_MAP_ROWS { ... }, from row y
RECURSIVE init_rows(_, _, _)
init_rows(st, y, d) ==
    IF y = TILE_MAP_ROWS THEN st
    ELSE LET next == init_row(st, 0, y, d) IN
         IF next.ladder_set \in BOOLEAN THEN init_rows(next, y + 1, d) ELSE st

\* init_tile_map's loops over a fresh allocation, for each outcome of the draws (a table,
\* computed once)
init_loops ==
    [d \in DrawsOfMap |->
        init_rows([tm |-> zeroed_tile_map, ladder_set |-> FALSE,
                   other_floor |-> <<>>, rng_calls |-> 0], 0, d)] @@ <<>>

RECURSIVE get_tilemap_at(_, _, _, _)
RECURSIVE init_tile_map(_, _, _, _)

\* faulty variant: the ladder is paired on the floor being generated
other_z_same(z) == z

\* let other_z = (z + 1) % 2
other_z(z) == (z + 1) % 2

\* faulty variant: the scan of the populated slots never matches
find_slot_none(w, pos, z) == -1

\* the first slot below next_tile_map_index whose key is (pos, z), or -1
find_slot(w, pos, z) ==
    LET hits == {i \in 0..(w.next_tile_map_index - 1) :
                    w.tile_map_indexes[i] = Some(pos, z)}
    IN  IF hits = {} THEN -1 ELSE CHOOSE i \in hits : \A j \in hits : i <= j

\* faulty variant: a hit draws from the Rng and clears the tile map it returns
get_tilemap_at_regen(c, pos, z, draws) ==
    LET found == find_slot(c.world, pos, z)
    IN  IF found # -1
        THEN [c EXCEPT !.ret = found,
                       !.rng_calls = @ + 1,
                       !.world.tile_maps[found] = zeroed_tile_map]
        ELSE init_tile_map(c, pos, z, draws)

\* get_tilemap_at(&mut self, pos, z, memory, rng)
get_tilemap_at(c, pos, z, draws) ==
    LET w == c.world
        found == find_slot(w, pos, z)
        \* a None below the first hit (or below next_tile_map_index on a miss)
        unsynced == {i \in 0..(w.next_tile_map_index - 1) :
                        w.tile_map_indexes[i] = None /\ (found = -1 \/ i < found)}
    IN  IF unsynced # {} THEN [c EXCEPT !.panic = "next_tile_map_index out of sync"]
        ELSE IF found # -1 THEN [c EXCEPT !.ret = found]
        ELSE init_tile_map(c, pos, z, draws)

\* init_tile_map(&mut self, chunk, z, memory, rng)
init_tile_map(c, chunk, z, draws) ==
    LET c1 == alloc_tilemap_at(c, chunk, z) IN
    IF c1.panic # "none" THEN c1
    ELSE
    LET slot == c1.ret
        st == IF c1.world.tile_maps[slot] = zeroed_tile_map
              THEN [init_loops[draws[z]] EXCEPT !.rng_calls = @ + c1.rng_calls]
              ELSE init_rows([tm |-> c1.world.tile_maps[slot], ladder_set |-> FALSE,
                              other_floor |-> <<>>, rng_calls |-> c1.rng_calls], 0, draws[z])
        c2 == [c1 EXCEPT !.world.tile_maps[slot] = st.tm, !.rng_calls = st.rng_calls]
    IN  IF st.other_floor = <<>>
        THEN get_tilemap_at(c2, chunk, z, draws)
        ELSE
        LET c3 == get_tilemap_at(c2, chunk, other_z(z), draws)
        IN  IF c3.panic # "none" THEN c3
            ELSE
            LET w == set_tile_at(c3.world.tile_maps[c3.ret],
                                 st.other_floor[1], st.other_floor[2], "Ladder")
                c4 == [c3 EXCEPT !.world.tile_maps[c3.ret] = w.tm]
            IN  get_tilemap_at(c4, chunk, z, draws)

(***************************************************************************)
(* Entities and their movement                                             *)
(*                                                                         *)
(* A velocity is kept in tile_rel units per second and an acceleration as  *)
(* a fraction num / den of a unit per second squared; delta_t is           *)
(* 1 / FRAMES_PER_SECOND. move_delta is rounded to the nearest unit and    *)
(* the new velocity to the nearest unit per second.                        *)
(***************************************************************************)
\* the nearest integer to num / den (den > 0), halves away from zero
RoundDiv(num, den) ==
    Sign(num) * ((2 * Abs(num) + den) \div (2 * den))

RECURSIVE isqrt(_)
\* the largest r with r * r <= m
isqrt(m) ==
    IF m < 2 THEN m
    ELSE LET s == 2 * isqrt(m \div 4)
         IN  IF (s + 1) * (s + 1) > m THEN s ELSE s + 1

\* f32::sqrt of n, in hundredths
sqrt100(n) == isqrt(10000 * n)

\* State::reset: the player, at rest
reset_entity ==
    [position |-> reset_position,
     velocity |-> [x |-> 0, y |-> 0],
     direction |-> "Front"]

\* the loop over game.buttons, in the order of the Button ids: the acceleration, in
\* halves (Meters(1.0) is 2)
button_acceleration(buttons) ==
    LET y0 == IF "Down" \in buttons THEN -2 ELSE IF "Up" \in buttons THEN 2 ELSE 0
        x0 == IF "Right" \in buttons THEN 2 ELSE IF "Left" \in buttons THEN -2 ELSE 0
        x1 == IF "DecreaseSpeed" \in buttons THEN x0 \div 2 ELSE x0
        y1 == IF "DecreaseSpeed" \in buttons THEN y0 \div 2 ELSE y0
    IN  IF "IncreaseSpeed" \in buttons THEN [x |-> 10 * x1, y |-> 10 * y1]
        ELSE [x |-> x1, y |-> y1]

\* the same loop: entity.direction after it
button_direction(direction, buttons) ==
    IF "Right" \in buttons THEN "Right"
    ELSE IF "Left" \in buttons THEN "Left"
    ELSE IF "Down" \in buttons THEN "Front"
    ELSE IF "Up" \in buttons THEN "Back"
    ELSE direction

\* if len_accel > 1.0 { acceleration *= 1.0 / len_accel.sqrt() }: each component as a
\* fraction num / den of Meters(1.0)
clamp_acceleration(acceleration) ==
    LET len_accel == acceleration.x * acceleration.x + acceleration.y * acceleration.y
    IN  IF len_accel > 4
        THEN [x |-> 100 * acceleration.x, y |-> 100 * acceleration.y,
              den |-> sqrt100(len_accel)]
        ELSE [x |-> acceleration.x, y |-> acceleration.y, den |-> 2]

\* faulty variant: a constant acceleration to the right is added in every frame
frame_acceleration_wind(a, den, v) ==
    [num |-> PLAYER_SPEED * UnitsPerTile * (a + den) - FRICTION_CONST * den * v,
     den |-> den]

\* faulty variant: no friction slows the entity
frame_acceleration_no_friction(a, den, v) ==
    [num |-> PLAYER_SPEED * UnitsPerTile * a, den |-> den]

\* acceleration * player_speed + velocity.neg() * friction_const as the fraction
\* num / den of a unit per second squared, for one axis
frame_acceleration(a, den, v) ==
    [num |-> PLAYER_SPEED * UnitsPerTile * a - FRICTION_CONST * den * v,
     den |-> den]

\* 0.5 * a * t^2 + v * t
move_delta(fa, v) ==
    RoundDiv(fa.num + 2 * FRAMES_PER_SECOND * fa.den * v,
             2 * FRAMES_PER_SECOND * FRAMES_PER_SECOND * fa.den)

\* a * t + v
new_velocity(fa, v) == RoundDiv(fa.num, FRAMES_PER_SECOND * fa.den) + v

\* WorldPosition::into_chunk
position_into_chunk(p) ==
    [chunk_id |-> [x |-> into_chunk(p.tile_map_x).chunk_id,
                   y |-> into_chunk(p.tile_map_y).chunk_id],
     offset |-> [x |-> into_chunk(p.tile_map_x).offset,
                 y |-> into_chunk(p.tile_map_y).offset]]

\* move_entity up to new_player_pos.canonicalize(): the entity with its new velocity,
\* the tentative position, the acceleration passed to move_entity and canonicalize's
\* abort
tentative_move(ent, acceleration) ==
    LET a == clamp_acceleration(acceleration)
        fx == frame_acceleration(a.x, a.den, ent.velocity.x)
        fy == frame_acceleration(a.y, a.den, ent.velocity.y)
        moved == [ent.position EXCEPT
                    !.tile_rel.x = @ + move_delta(fx, ent.velocity.x),
                    !.tile_rel.y = @ + move_delta(fy, ent.velocity.y)]
        cn == canonicalize(moved)
    IN  [entity |-> [ent EXCEPT !.velocity = [x |-> new_velocity(fx, ent.velocity.x),
                                              y |-> new_velocity(fy, ent.velocity.y)]],
         new_player_pos |-> cn.pos,
         acceleration |-> acceleration,
         panic |-> cn.panic]

\* faulty variant: no tile blocks the move
is_valid_always(next_tile) == TRUE

\* let mut valid = true; if matches!(next_tile, &TileType::Wall) { valid = false }
is_valid(next_tile) == next_tile # "Wall"

\* the reflection vector chosen by the four comparisons of the tile offsets
reflection(old_player, new_player_pos) ==
    LET old == position_into_chunk(old_player).offset
        new == position_into_chunk(new_player_pos).offset
    IN  IF old.y < new.y THEN [x |-> 0, y |-> -1]
        ELSE IF old.y > new.y THEN [x |-> 0, y |-> 1]
        ELSE IF old.x > new.x THEN [x |-> -1, y |-> 0]
        ELSE IF old.x < new.x THEN [x |-> 1, y |-> 0]
        ELSE [x |-> 0, y |-> 0]

\* faulty variant: WallReaction::Bounce = 2 is the reaction constant
reflect_bounce(old_v, r) ==
    LET dot == old_v.x * r.x + old_v.y * r.y
    IN  [x |-> old_v.x - r.x * dot * 2,
         y |-> old_v.y - r.y * dot * 2]

\* old_v - reflection * old_v.dot(reflection) * reaction_const
reflect(old_v, r) ==
    LET dot == old_v.x * r.x + old_v.y * r.y
    IN  [x |-> old_v.x - r.x * dot * REACTION_CONST,
         y |-> old_v.y - r.y * dot * REACTION_CONST]

\* no move made yet
NoTickOp ==
    [done |-> FALSE, before |-> reset_entity, new_player_pos |-> reset_position,
     acceleration |-> [x |-> 0, y |-> 0], next_tile |-> "none", valid |-> TRUE]

\* faulty variant: the floor changes on every move that ends on a Ladder
move_commit_toggle(c, old_player, t, op, next_tile) ==
    IF is_valid(next_tile)
    THEN [c |-> c,
          entity |-> [t.entity EXCEPT !.position =
                        IF next_tile = "Ladder"
                        THEN [t.new_player_pos EXCEPT !.z = (@ + 1) % 2]
                        ELSE t.new_player_pos],
          op |-> [op EXCEPT !.next_tile = next_tile, !.valid = TRUE]]
    ELSE [c |-> c,
          entity |-> [t.entity EXCEPT !.velocity =
                        reflect(@, reflection(old_player, t.new_player_pos))],
          op |-> [op EXCEPT !.next_tile = next_tile, !.valid = FALSE]]

\* move_entity from the destination tile on: next_tile is checked, the floor changes on
\* a Ladder entered from another tile, and the move is committed or the velocity is
\* reflected; t is the tentative move and op the record of the move so far
move_commit(c, old_player, t, op, next_tile) ==
    IF is_valid(next_tile)
    THEN [c |-> c,
          entity |-> [t.entity EXCEPT !.position =
                        IF next_tile = "Ladder"
                           /\ (t.new_player_pos.tile_map_x # old_player.tile_map_x
                               \/ t.new_player_pos.tile_map_y # old_player.tile_map_y)
                        THEN [t.new_player_pos EXCEPT !.z = (@ + 1) % 2]
                        ELSE t.new_player_pos],
          op |-> [op EXCEPT !.next_tile = next_tile, !.valid = TRUE]]
    ELSE [c |-> c,
          entity |-> [t.entity EXCEPT !.velocity =
                        reflect(@, reflection(old_player, t.new_player_pos))],
          op |-> [op EXCEPT !.next_tile = next_tile, !.valid = FALSE]]

\* move_entity from tile_map.get_tile_at(offset) on; c is the context after
\* get_tilemap_at and g the outcome of get_tile_at
move_tile(c, old_player, t, op, g) ==
    IF g.panic # "none"
    THEN [c |-> [c EXCEPT !.panic = g.panic], entity |-> t.entity, op |-> op]
    ELSE move_commit(c, old_player, t, op, g.tile)

\* move_entity from the return of world.get_tilemap_at on
move_lookup(c, old_player, t, op) ==
    IF c.panic # "none" THEN [c |-> c, entity |-> t.entity, op |-> op]
    ELSE move_tile(c, old_player, t, op,
                   get_tile_at(c.world.tile_maps[c.ret],
                               position_into_chunk(t.new_player_pos).offset))

\* move_entity from the return of new_player_pos.canonicalize() on
move_tentative(c, old_player, t, op, draws) ==
    IF t.panic # "none"
    THEN [c |-> [c EXCEPT !.panic = t.panic], entity |-> t.entity, op |-> op]
    ELSE move_lookup(get_tilemap_at(c, position_into_chunk(t.new_player_pos).chunk_id,
                                    t.new_player_pos.z, draws),
                     old_player, t, op)

\* the record of a move whose destination tile is not resolved yet
tick_op(ent, t) ==
    [done |-> TRUE, before |-> ent, new_player_pos |-> t.new_player_pos,
     acceleration |-> t.acceleration, next_tile |-> "none", valid |-> TRUE]

\* move_entity(entity_index, world, game, state, acceleration), given its tentative
\* move t: the context, the entity and the record of the move afterwards
move_entity(c, ent, t, draws) ==
    move_tentative(c, ent.position, t, tick_op(ent, t), draws)

(***************************************************************************)
(* The variables of a specification that does not use them                 *)
(***************************************************************************)
NoTileOp == [name |-> "none", chunk |-> 0, offset |-> 0, val |-> 0,
             before |-> from_chunk_offset(0, 0), panic |-> FALSE]

TileIdle ==
    /\ tileMax = TILE_MAP_COLUMNS
    /\ tile = from_chunk_offset(0, 0)
    /\ tileOp = NoTileOp
    /\ tileCalls = 0

CanonIdle ==
    /\ cpos = reset_position
    /\ cOp = [done |-> FALSE, before |-> reset_position, panic |-> "none"]

\* game_update_and_render's first call: the World is allocated at the start of the
\* memory and initialized
\* Memory::new and the allocation of the World by game_update_and_render's first call
initial_memory ==
    alloc([next_allocation |-> 0, data_len |-> MEMORY_LENGTH], SIZE_OF_WORLD).memory

\* no get_tilemap_at call made yet
NoWorldOp ==
    [done |-> FALSE, pos |-> [x |-> 0, y |-> 0], z |-> 0, ret |-> 0,
     before |-> [world |-> init_world, memory |-> initial_memory, rng_calls |-> 0]]

WorldIdle ==
    /\ world = init_world
    /\ memory = initial_memory
    /\ rng_calls = 0
    /\ panic = "none"
    /\ worldOp = NoWorldOp

\* State::reset, before the first frame
GameIdle ==
    /\ entity = reset_entity
    /\ ticks = 0
    /\ freeFrames = 0
    /\ tickOp = NoTickOp

\* no get_tile_at or set_tile_at call made yet
NoMapOp ==
    [name |-> "none", x |-> 0, y |-> 0, val |-> "Empty", before |-> null,
     tile |-> "Empty", overflow_checks |-> FALSE]

\* no TileMap under test
MapIdle ==
    /\ tmap = null
    /\ mapOp = NoMapOp

\* no Memory::alloc call made yet
NoAllocOp ==
    [done |-> FALSE, size |-> 0, result |-> 0,
     before |-> [next_allocation |-> 0, data_len |-> MEMORY_LENGTH]]

ArenaIdle ==
    /\ allocs = <<>>
    /\ allocOp = NoAllocOp

\* no frame played yet with several entities
NoOrderOp == [done |-> FALSE]

\* one entity, no recording
PlatformIdle ==
    /\ seed = 0
    /\ entities = <<>>
    /\ orderOp = NoOrderOp
    /\ looping = "Normal"
    /\ looping_state = <<>>
    /\ firstPass = <<>>

\* the draws that get_tilemap_at(pos, z) can consume in world w: none when (pos, z) is
\* registered or no slot is left for it; none for the other floor when that floor is
\* registered, when the map of floor z gets no ladder or when no slot is left for the
\* other floor
DrawsFor(w, pos, z) ==
    IF find_slot(w, pos, z) # -1 \/ w.next_tile_map_index >= PREALLOC_TILE_MAPS
    THEN {[f \in 0..1 |-> NoDraw]}
    ELSE {d \in Draws :
            (\/ d[z].ladder = {}
             \/ find_slot(w, pos, (z + 1) % 2) # -1
             \/ w.next_tile_map_index + 1 >= PREALLOC_TILE_MAPS)
                => d[(z + 1) % 2] = NoDraw}

(***************************************************************************)
(* SpecWorld: get_tilemap_at called for any chunks and floors, in any order *)
(***************************************************************************)
WorldChunks == {[x |-> cx, y |-> 0] : cx \in 0..MaxWorldChunk}

InitWorld ==
    /\ PlatformIdle
    /\ WorldIdle
    /\ TileIdle
    /\ CanonIdle
    /\ GameIdle
    /\ MapIdle
    /\ ArenaIdle

Context == [world |-> world, memory |-> memory, rng_calls |-> rng_calls,
            panic |-> panic, ret |-> 0]

\* one call of get_tilemap_at, for a chunk of chunks and a floor
GetTilemapAtIn(chunks) ==
    /\ panic = "none"
    /\ \E pos \in chunks, z \in 0..1 : \E draws \in DrawsFor(world, pos, z) :
       \E c \in {get_tilemap_at(Context, pos, z, draws)} :
        /\ world' = c.world
        /\ memory' = c.memory
        /\ rng_calls' = c.rng_calls
        /\ panic' = c.panic
        /\ worldOp' = [done |-> TRUE, pos |-> pos, z |-> z, ret |-> c.ret,
                       before |-> [world |-> world, memory |-> memory,
                                   rng_calls |-> rng_calls]]
    /\ UNCHANGED <<tileVars, canonVars, gameVars, mapVars, arenaVars,
                   platformVars>>

GetTilemapAt ==
    /\ world.next_tile_map_index < MaxWorldMaps
    /\ GetTilemapAtIn(WorldChunks)

NextWorld == GetTilemapAt

SpecWorld == InitWorld /\ [][NextWorld]_vars

\* the cells of a tile map
Cells == {[x |-> x, y |-> y] : x \in 0..(TILE_MAP_COLUMNS - 1), y \in 0..(TILE_MAP_ROWS - 1)}

\* the cells of the tile map tm that hold a Ladder (a cell (x, y) is kept in row
\* TILE_MAP_ROWS - 1 - y of the data, as in get_tile_at)
LaddersOf(tm) ==
    {cell \in Cells : tm[TILE_MAP_ROWS - 1 - cell.y][cell.x] = "Ladder"}

\* the cells at which the tile map registered for (pos, z) holds a Ladder; none while
\* no tile map is registered for (pos, z)
LadderCells(pos, z) ==
    IF find_slot(world, pos, z) = -1 THEN {}
    ELSE LaddersOf(world.tile_maps[find_slot(world, pos, z)])

\* C1: while the process runs, after any sequence of get_tilemap_at calls, for every
\* chunk and every cell, the tile map of floor 0 holds a Ladder at the cell if and only
\* if the tile map of floor 1 exists and holds a Ladder at the same cell
LadderPairing ==
    panic = "none" =>
        \A pos \in WorldChunks : LadderCells(pos, 0) = LadderCells(pos, 1)

\* floor 1 of a chunk was registered before its floor 0, and the two floors hold
\* Ladders at the same two cells: the one generated on floor 1 and the one generated
\* on floor 0
LadderPairingWitness ==
    /\ panic = "none"
    /\ \E pos \in WorldChunks :
        /\ find_slot(world, pos, 1) # -1
        /\ find_slot(world, pos, 1) < find_slot(world, pos, 0)
        /\ Cardinality(LadderCells(pos, 0)) = 2
        /\ LadderCells(pos, 0) = LadderCells(pos, 1)

\* C14: in every state, every registered tile map holds at most one Ladder
OneLadderPerMap ==
    \A i \in 0..(world.next_tile_map_index - 1) :
        Cardinality(LaddersOf(world.tile_maps[i])) <= 1

\* the cells of the first and last row and of the first and last column
BorderCells ==
    {cell \in Cells : \/ cell.y \in {0, TILE_MAP_ROWS - 1}
                      \/ cell.x \in {0, TILE_MAP_COLUMNS - 1}}

\* the three middle cells of the first and last row, and the three middle cells of the
\* first and last column
DoorCells ==
    {cell \in BorderCells :
        IF cell.y \in {0, TILE_MAP_ROWS - 1}
        THEN cell.x \in {TILE_MAP_COLUMNS \div 2 - 1, TILE_MAP_COLUMNS \div 2,
                         TILE_MAP_COLUMNS \div 2 + 1}
        ELSE cell.y \in {TILE_MAP_ROWS \div 2 - 1, TILE_MAP_ROWS \div 2,
                         TILE_MAP_ROWS \div 2 + 1}}

\* C15: in every state, in every registered tile map, a cell of the border is Empty if
\* it is one of the door cells and a Wall otherwise, and no cell of the border is a
\* Ladder
BordersIntact ==
    \A i \in 0..(world.next_tile_map_index - 1) :
        /\ \A cell \in BorderCells :
              world.tile_maps[i][TILE_MAP_ROWS - 1 - cell.y][cell.x] =
                  IF cell \in DoorCells THEN "Empty" ELSE "Wall"
        /\ LaddersOf(world.tile_maps[i]) \cap BorderCells = {}

\* a tile map generated by an earlier call, with an interior Wall and no Ladder,
\* received a pairing write in the last call
BordersIntactWitness ==
    /\ worldOp.done /\ panic = "none"
    /\ \E i \in 0..(worldOp.before.world.next_tile_map_index - 1) :
        /\ LaddersOf(worldOp.before.world.tile_maps[i]) = {}
        /\ LaddersOf(world.tile_maps[i]) # {}
        /\ \E cell \in Cells \ BorderCells :
              world.tile_maps[i][TILE_MAP_ROWS - 1 - cell.y][cell.x] = "Wall"

(***************************************************************************)
(* SpecCapacity: get_tilemap_at called, in any order, on a World that holds *)
(* PrefillMaps tile maps already: for their keys and for the keys of two   *)
(* more chunks                                                             *)
(***************************************************************************)
\* the context after get_tilemap_at was called for n keys in turn, with an Rng that
\* yields no ladder and no wall: (0, 0) floor 0, (0, 0) floor 1, (1, 0) floor 0, ...
RECURSIVE prefill(_)
prefill(n) ==
    IF n = 0
    THEN [world |-> init_world, memory |-> initial_memory, rng_calls |-> 0,
          panic |-> "none", ret |-> 0]
    ELSE get_tilemap_at(prefill(n - 1), [x |-> (n - 1) \div 2, y |-> 0], (n - 1) % 2,
                        [f \in 0..1 |-> NoDraw])

\* the chunks of the prefilled keys and the next two chunks
CapacityChunks == {[x |-> cx, y |-> 0] : cx \in 0..((PrefillMaps + 1) \div 2 + 1)}

InitCapacity ==
    /\ PlatformIdle
    /\ \E c \in {prefill(PrefillMaps)} :
        /\ world = c.world
        /\ memory = c.memory
        /\ rng_calls = c.rng_calls
        /\ panic = c.panic
    /\ worldOp = NoWorldOp
    /\ TileIdle
    /\ CanonIdle
    /\ GameIdle
    /\ MapIdle
    /\ ArenaIdle

GetTilemapAtAny == GetTilemapAtIn(CapacityChunks)

NextCapacity == GetTilemapAtAny

SpecCapacity == InitCapacity /\ [][NextCapacity]_vars

\* the keys in the registry of World w
Keys(w) == {w.tile_map_indexes[i][1] : i \in 0..(w.next_tile_map_index - 1)}

\* the key of the last call
LastKey == [pos |-> worldOp.pos, z |-> worldOp.z]

\* C12: a call made when PREALLOC_TILE_MAPS keys are populated aborts, leaving the
\* registry as it was, if its key is not one of them, and returns if it is one
FullRegistry ==
    (worldOp.done /\ worldOp.before.world.next_tile_map_index = PREALLOC_TILE_MAPS) =>
        IF LastKey \in Keys(worldOp.before.world)
        THEN panic = "none"
        ELSE panic = "Out of tile map slot" /\ world = worldOp.before.world

\* a call for a new key aborted on a full registry
FullRegistryWitness ==
    /\ worldOp.done /\ worldOp.before.world.next_tile_map_index = PREALLOC_TILE_MAPS
    /\ Cardinality(Keys(worldOp.before.world)) = PREALLOC_TILE_MAPS
    /\ LastKey \notin Keys(worldOp.before.world)
    /\ panic = "Out of tile map slot"

\* the populated slots of World w
Populated(w) == {i \in Slots : w.tile_map_indexes[i] # None}

\* C13: the populated keys are pairwise distinct, the populated slots are exactly the
\* slots below next_tile_map_index, their number is next_tile_map_index, which is at most
\* PREALLOC_TILE_MAPS, and a call leaves every key populated before it at its slot
RegistryInvariant ==
    /\ world.next_tile_map_index <= PREALLOC_TILE_MAPS
    /\ Populated(world) = 0..(world.next_tile_map_index - 1)
    /\ Cardinality(Populated(world)) = world.next_tile_map_index
    /\ \A i, j \in Populated(world) :
            world.tile_map_indexes[i] = world.tile_map_indexes[j] => i = j
    /\ worldOp.done =>
            \A i \in Populated(worldOp.before.world) :
                world.tile_map_indexes[i] = worldOp.before.world.tile_map_indexes[i]

\* a call for a new key took the last slot of a registry that had keys already
RegistryInvariantWitness ==
    /\ worldOp.done /\ panic = "none"
    /\ Populated(worldOp.before.world) # {}
    /\ LastKey \notin Keys(worldOp.before.world)
    /\ world.next_tile_map_index = PREALLOC_TILE_MAPS
    /\ world.tile_map_indexes[worldOp.ret] = Some(worldOp.pos, worldOp.z)

\* C16: a call that returned has returned the slot registered for its key, and a call
\* for a key that was registered before it has returned the slot the key had, with
\* the World (registry and tile maps), the Memory and the number of Rng draws as they
\* were before the call
HitChangesNothing ==
    /\ (worldOp.done /\ panic = "none") =>
            world.tile_map_indexes[worldOp.ret] = Some(worldOp.pos, worldOp.z)
    /\ (worldOp.done /\ LastKey \in Keys(worldOp.before.world)) =>
            /\ panic = "none"
            /\ worldOp.ret = find_slot(worldOp.before.world, worldOp.pos, worldOp.z)
            /\ world = worldOp.before.world
            /\ memory = worldOp.before.memory
            /\ rng_calls = worldOp.before.rng_calls

\* a call for the key of a tile map generated with a Ladder and an interior Wall has
\* returned that tile map
HitChangesNothingWitness ==
    /\ worldOp.done /\ panic = "none"
    /\ LastKey \in Keys(worldOp.before.world)
    /\ worldOp.before.rng_calls > 0
    /\ LaddersOf(world.tile_maps[worldOp.ret]) # {}
    /\ \E cell \in Cells \ BorderCells :
          world.tile_maps[worldOp.ret][TILE_MAP_ROWS - 1 - cell.y][cell.x] = "Wall"

\* the slots populated by the last call
Created == Populated(world) \ Populated(worldOp.before.world)

\* the number of interior cells of a tile map: init_tile_map's loops call rng.next()
\* once or twice for each of them
InteriorCells == (TILE_MAP_COLUMNS - 2) * (TILE_MAP_ROWS - 2)

\* C30: a call for a key that is not in the registry, made while fewer than
\* PREALLOC_TILE_MAPS slots are populated, returns without the capacity abort
NoAbortBelowCapacity ==
    (/\ worldOp.done
     /\ LastKey \notin Keys(worldOp.before.world)
     /\ Cardinality(Populated(worldOp.before.world)) < PREALLOC_TILE_MAPS)
    => panic # "Out of tile map slot"

\* C22: a call has returned or aborted after populating at most two slots, with the
\* key requested or the key of the same chunk on the other floor, no key is in two
\* slots, and the Rng draws it made are those of one pass of init_tile_map's loops for
\* each slot it populated
OneGenerationPerKey ==
    worldOp.done =>
        /\ Cardinality(Created) <= 2
        /\ \A i \in Created :
              world.tile_map_indexes[i] \in
                  {Some(worldOp.pos, worldOp.z), Some(worldOp.pos, (worldOp.z + 1) % 2)}
        /\ \A i \in Created, j \in Populated(world) :
              world.tile_map_indexes[i] = world.tile_map_indexes[j] => i = j
        /\ rng_calls - worldOp.before.rng_calls >= InteriorCells * Cardinality(Created)
        /\ rng_calls - worldOp.before.rng_calls <= 2 * InteriorCells * Cardinality(Created)

\* a call generated the tile maps of both floors of a chunk, each with a Ladder of its
\* own at a different cell, and returned the one requested
OneGenerationPerKeyWitness ==
    /\ worldOp.done /\ panic = "none"
    /\ Cardinality(Created) = 2
    /\ worldOp.ret \in Created
    /\ \A i \in Created : Cardinality(LaddersOf(world.tile_maps[i])) = 2
    /\ rng_calls - worldOp.before.rng_calls < 4 * InteriorCells

(***************************************************************************)
(* The Rng as a function of its state. Rng::next is a fixed function of    *)
(* (xstate, ystate): the draws made from the n-th call on are a function   *)
(* of the state State::reset gave the Rng (the seed) and of n. The model   *)
(* takes the outcomes of the draws of one map from SeedTable, in turn.     *)
(***************************************************************************)
\* the outcomes of the draws of one map that the seeded Rng yields
SeedTable ==
    <<NoDraw,
      [ladder |-> {}, wall |-> {<<5, 7>>}],
      [ladder |-> {<<6, 6>>}, wall |-> {}]>>

\* Rng::new: the states that Lehmer64, seeded from rdtsc, can give the Rng
Seeds == 0..(Len(SeedTable) - 1)

\* the outcome of the draws of a map whose generation starts at the n-th call of the
\* Rng of seed s
rng_draw(s, n) == SeedTable[((s + n) % Len(SeedTable)) + 1]

\* the draws of one get_tilemap_at(pos, z) that starts at the n-th call: those of the map
\* of floor z and, after them, those of the map of the other floor
seeded_draws(s, n, z) ==
    [f \in 0..1 |-> IF f = z THEN rng_draw(s, n)
                    ELSE rng_draw(s, n + init_loops[rng_draw(s, n)].rng_calls)]

\* the Rng of a frame: one whose draws are any of drawSet, or the Rng of the seed
AnyRng(drawSet) == [seeded |-> FALSE, draws |-> drawSet]

SeededRng == [seeded |-> TRUE, draws |-> {}]

\* the draws that a get_tilemap_at(pos, z) made in context c consumes from rng
DrawsAt(rng, c, pos, z) ==
    IF rng.seeded THEN {seeded_draws(seed, c.rng_calls, z)}
    ELSE DrawsFor(c.world, pos, z) \cap rng.draws

\* the game after its first frame: the tile map of chunk (0, 0) on floor 0 is generated
\* by the Rng of seed s
first_map(s) ==
    get_tilemap_at([world |-> init_world, memory |-> initial_memory,
                    rng_calls |-> 0, panic |-> "none", ret |-> 0],
                   [x |-> 0, y |-> 0], 0, seeded_draws(s, 0, 0))

(***************************************************************************)
(* Spec: the game from State::reset, one frame (game_update_and_render)    *)
(* after the other, with any buttons pressed in each frame                 *)
(***************************************************************************)
\* the sets of buttons that are tried as pressed in a frame
ButtonSets == {{}, {"Up"}, {"Right"}}

\* draw_tilemap_at_camera: the chunk and floor of state.camera after set_camera(), whose
\* body is not part of the sources: the camera is where State::reset put it, or it is in
\* the chunk and on the floor of the player ent
CameraKeys(ent) ==
    {[pos |-> [x |-> 0, y |-> 0], z |-> 0],
     [pos |-> position_into_chunk(ent.position).chunk_id, z |-> ent.position.z]}

Init ==
    /\ PlatformIdle
    /\ GameIdle
    /\ MapIdle
    /\ ArenaIdle
    /\ WorldIdle
    /\ TileIdle
    /\ CanonIdle

\* _game_update_and_render called with the memory and Rng of context c0 and the entity
\* ent0: the tile map at the camera is fetched (and drawn), then the buttons are read and
\* the entity is moved; the buttons pressed are one of buttonSets and the draws that a
\* get_tilemap_at made in context c consumes are those of rng
FrameFrom(c0, ent0, buttonSets, rng) ==
    /\ c0.panic = "none"
    /\ \E buttons \in buttonSets, cam \in CameraKeys(ent0) :
       \E camDraws \in DrawsAt(rng, c0, cam.pos, cam.z) :
       \E c1 \in {get_tilemap_at(c0, cam.pos, cam.z, camDraws)} :
        IF c1.panic # "none"
        THEN /\ world' = c1.world
             /\ memory' = c1.memory
             /\ rng_calls' = c1.rng_calls
             /\ panic' = c1.panic
             /\ entity' = ent0
             /\ UNCHANGED tickOp
        ELSE \E ent \in {[ent0 EXCEPT !.direction = button_direction(@, buttons)]} :
             \E t \in {tentative_move(ent, button_acceleration(buttons))} :
             \E draws \in (IF t.panic # "none" THEN NoDraws
                           ELSE DrawsAt(rng, c1,
                                        position_into_chunk(t.new_player_pos).chunk_id,
                                        t.new_player_pos.z)) :
             \E r \in {move_entity(c1, ent, t, draws)} :
                /\ world' = r.c.world
                /\ memory' = r.c.memory
                /\ rng_calls' = r.c.rng_calls
                /\ panic' = r.c.panic
                /\ entity' = r.entity
                /\ tickOp' = r.op
    /\ UNCHANGED <<tileVars, canonVars, worldOp, mapVars, arenaVars>>

\* a frame of the game of one entity, from the current state: the draws of the Rng are
\* any of drawSet that the call can consume
Frame(buttonSets, drawSet) ==
    /\ FrameFrom(Context, entity, buttonSets, AnyRng(drawSet))
    /\ UNCHANGED platformVars

\* the platform's loop: at most maxTicks frames are played, with any draws of the Rng
TickIn(buttonSets, maxTicks) ==
    /\ ticks < maxTicks
    /\ ticks' = ticks + 1
    /\ Frame(buttonSets, Draws)
    /\ UNCHANGED freeFrames

Tick == TickIn(ButtonSets, MaxTicks)

Next == Tick

Spec == Init /\ [][Next]_vars

\* the tile at the entity's position in the tile map of its chunk and floor, or "none"
\* while that tile map does not exist
TileUnder(ent) ==
    LET key == position_into_chunk(ent.position)
        slot == find_slot(world, key.chunk_id, ent.position.z)
    IN  IF slot = -1 THEN "none"
        ELSE get_tile_at(world.tile_maps[slot], key.offset).tile

\* C2: in every frame, if the tile at the entity's tentative position resolves to Wall,
\* the entity's position after the frame (tile x, tile y, floor and tile_rel) is its
\* position before the frame
WallImpenetrable ==
    (tickOp.done /\ tickOp.next_tile = "Wall") =>
        entity.position = tickOp.before.position

\* a moving entity was stopped at the edge of a Wall tile next to its own tile
WallImpenetrableWitness ==
    /\ tickOp.done /\ tickOp.next_tile = "Wall"
    /\ tickOp.new_player_pos.tile_map_y # tickOp.before.position.tile_map_y
    /\ tickOp.before.velocity.y > 0
    /\ entity.position = tickOp.before.position

\* the reflection vector of the last move
LastReflection == reflection(tickOp.before.position, tickOp.new_player_pos)

\* C11: when a move is rejected against a Wall, the entity's velocity after the frame
\* has a component of exactly 0 along the reflection vector r of that move
GrindZeroesNormal ==
    (tickOp.done /\ tickOp.next_tile = "Wall" /\ ~tickOp.valid) =>
        entity.velocity.x * LastReflection.x + entity.velocity.y * LastReflection.y = 0

\* an entity moving up at a positive speed was rejected by the Wall above it: r is
\* (0, -1) and the y component of its velocity is 0 afterwards
GrindZeroesNormalWitness ==
    /\ tickOp.done /\ tickOp.next_tile = "Wall" /\ ~tickOp.valid
    /\ LastReflection = [x |-> 0, y |-> -1]
    /\ tickOp.before.velocity.y > 0
    /\ entity.velocity.y = 0

\* C3: in every state, the cell the entity's position designates (chunk, tile offset,
\* floor) is not a Wall in the tile map of that chunk and floor
EntityNeverOnWall ==
    panic = "none" => TileUnder(entity) # "Wall"

\* the acceleration passed to move_entity in the last frame has zero length
ZeroAcceleration ==
    tickOp.done /\ tickOp.acceleration = [x |-> 0, y |-> 0]

LadderVelocities ==
    {[x |-> (PLAYER_SPEED * UnitsPerTile) \div 2, y |-> 0],
     [x |-> 0, y |-> (PLAYER_SPEED * UnitsPerTile) \div 2]}

InitLadder ==
    /\ PlatformIdle
    /\ entity \in {[reset_entity EXCEPT !.velocity = v] : v \in LadderVelocities}
    /\ ticks = 0
    /\ freeFrames = 0
    /\ tickOp = NoTickOp
    /\ WorldIdle
    /\ MapIdle
    /\ ArenaIdle
    /\ TileIdle
    /\ CanonIdle

LadderTick == TickIn(ButtonSets, MaxLadderTicks)

NextLadder == LadderTick

SpecLadder == InitLadder /\ [][NextLadder]_vars

\* whether the last move ended on a tile other than the one it started from
EnteredTile ==
    \/ tickOp.new_player_pos.tile_map_x # tickOp.before.position.tile_map_x
    \/ tickOp.new_player_pos.tile_map_y # tickOp.before.position.tile_map_y

\* C23: after a frame the entity's floor is the other floor if the destination tile of
\* its move is a Ladder and the tentative tile differs from the tile before the frame,
\* and the floor before the frame otherwise; the floor is 0 or 1 in every state
FloorToggle ==
    /\ entity.position.z \in {0, 1}
    /\ (tickOp.done /\ panic = "none") =>
            entity.position.z =
                IF tickOp.next_tile = "Ladder" /\ EnteredTile
                THEN (tickOp.before.position.z + 1) % 2
                ELSE tickOp.before.position.z

\* the entity, on floor 1 after stepping onto a Ladder, has moved within the cell of the
\* Ladder and is still on floor 1
FloorToggleWitness ==
    /\ tickOp.done /\ panic = "none"
    /\ tickOp.next_tile = "Ladder" /\ ~EnteredTile
    /\ tickOp.before.position.z = 1
    /\ entity.position.z = 1
    /\ entity.position.tile_rel # tickOp.before.position.tile_rel

\* C24: after a frame whose move changed the entity's floor, the tile map of the
\* entity's chunk and new floor is registered and holds a Ladder at the entity's cell
LadderArrival ==
    (tickOp.done /\ panic = "none" /\ tickOp.next_tile = "Ladder" /\ EnteredTile) =>
        /\ entity.position.z # tickOp.before.position.z
        /\ TileUnder(entity) = "Ladder"

\* the entity stepped from floor 0 onto a Ladder and is on floor 1, in a tile map with a
\* Ladder under it and a second Ladder elsewhere
LadderArrivalWitness ==
    /\ tickOp.done /\ panic = "none" /\ tickOp.next_tile = "Ladder" /\ EnteredTile
    /\ tickOp.before.position.z = 0
    /\ entity.position.z = 1
    /\ TileUnder(entity) = "Ladder"
    /\ Cardinality(LadderCells(position_into_chunk(entity.position).chunk_id, 1)) = 2

(***************************************************************************)
(* SpecPush: an entity next to the left Wall of a generated chunk, with    *)
(* Button::Left pressed in every frame                                     *)
(***************************************************************************)
\* the rows y whose cells (0, y) is a Wall and (1, y) is not: the interior rows but
\* the three rows of the door
PushRows ==
    {y \in 1..(TILE_MAP_ROWS - 2) :
        y \notin (TILE_MAP_ROWS \div 2 - 1)..(TILE_MAP_ROWS \div 2 + 1)}

\* the velocity of the entity at the start, along x: at rest, or moving left at half
\* of the speed at which friction balances the acceleration
PushVelocities == {0, 0 - (PLAYER_SPEED * UnitsPerTile) \div 2}

\* the tile map of chunk (0, 0), floor 0 is generated, with any draws, and the entity
\* is at column 1 of it
InitPush ==
    /\ PlatformIdle
    /\ \E draws \in DrawsFor(init_world, [x |-> 0, y |-> 0], 0) :
       \E c \in {get_tilemap_at([world |-> init_world, memory |-> initial_memory,
                                  rng_calls |-> 0, panic |-> "none", ret |-> 0],
                                 [x |-> 0, y |-> 0], 0, draws)} :
        /\ world = c.world
        /\ memory = c.memory
        /\ rng_calls = c.rng_calls
        /\ panic = c.panic
    /\ worldOp = NoWorldOp
    /\ \E y \in PushRows, v \in PushVelocities :
        entity = [reset_entity EXCEPT !.position.tile_map_x = from_chunk_offset(0, 1),
                                      !.position.tile_map_y = from_chunk_offset(0, y),
                                      !.velocity.x = v]
    /\ ticks = 0
    /\ freeFrames = 0
    /\ tickOp = NoTickOp
    /\ MapIdle
    /\ ArenaIdle
    /\ TileIdle
    /\ CanonIdle

PushLeft == TickIn({{"Left"}}, MaxPushTicks)

NextPush == PushLeft

\* the platform's loop calls game_update_and_render for the next frame
NextFrame == panic = "none" /\ ticks < MaxPushTicks /\ ticks' = ticks + 1

\* the platform's loop never stops calling game_update_and_render while the process
\* runs: the frame counter advances whenever a frame can be played
SpecPush == InitPush /\ [][NextPush]_vars /\ WF_ticks(NextFrame)

\* the last frame's move was rejected
Blocked == tickOp.done /\ ~tickOp.valid

\* C21: the entity pushed left next to the Wall of column 0 is eventually blocked; in
\* every state its tile is not in column 0; and in every state that follows a blocked
\* move the x component of its velocity is 0
PushedIntoWall ==
    /\ <>Blocked
    /\ [](position_into_chunk(entity.position).offset.x # 0)
    /\ [](Blocked => entity.velocity.x = 0)

\* the entity, at rest at the start, was blocked by the Wall at column 0 while moving
\* left, and stays at column 1 with no velocity along x
PushedIntoWallWitness ==
    /\ Blocked /\ tickOp.next_tile = "Wall"
    /\ position_into_chunk(tickOp.new_player_pos).offset.x = 0
    /\ position_into_chunk(entity.position).offset.x = 1
    /\ tickOp.before.velocity.x < 0
    /\ entity.velocity.x = 0
    /\ ticks > 2

(***************************************************************************)
(* SpecRun: the player, from rest in a row of doors, runs to the right     *)
(* through chunk after chunk; after any frame of the run, frames are       *)
(* played with any combination of buttons pressed                          *)
(***************************************************************************)
\* the ids of Button
Buttons == {"Up", "Down", "Left", "Right", "DecreaseSpeed", "IncreaseSpeed"}

\* every combination of pressed buttons
AllButtonSets == SUBSET Buttons

\* the middle row of a chunk: its first and last cells are doors
RunRow == TILE_MAP_ROWS \div 2

InitRun ==
    /\ PlatformIdle
    /\ \E c \in {get_tilemap_at([world |-> init_world, memory |-> initial_memory,
                                  rng_calls |-> 0, panic |-> "none", ret |-> 0],
                                 [x |-> 0, y |-> 0], 0, [f \in 0..1 |-> NoDraw])} :
        /\ world = c.world
        /\ memory = c.memory
        /\ rng_calls = c.rng_calls
        /\ panic = c.panic
    /\ worldOp = NoWorldOp
    /\ entity = [reset_entity EXCEPT !.position.tile_map_y = from_chunk_offset(0, RunRow)]
    /\ ticks = 0
    /\ freeFrames = 0
    /\ tickOp = NoTickOp
    /\ MapIdle
    /\ ArenaIdle
    /\ TileIdle
    /\ CanonIdle

\* a frame of the run: Right is pressed
RunFrame ==
    /\ freeFrames = 0
    /\ ticks < MaxRunTicks
    /\ ticks' = ticks + 1
    /\ Frame({{"Right"}}, NoDraws)
    /\ UNCHANGED freeFrames

\* a frame after the run: any buttons are pressed
FreeFrame ==
    /\ freeFrames < MaxFreeFrames
    /\ freeFrames' = freeFrames + 1
    /\ Frame(AllButtonSets, NoDraws)
    /\ UNCHANGED ticks

NextRun == RunFrame \/ FreeFrame

SpecRun == InitRun /\ [][NextRun]_vars

\* the tiles one step or no step away from tile t on an axis of max_offset tiles a chunk
Neighbours(t, max_offset) ==
    {t, adjust(t, 1, MAX_NUM_CHUNKS, max_offset).tile,
        adjust(t, -1, MAX_NUM_CHUNKS, max_offset).tile}

\* C25: with delta_t, the player speed and the friction constant as they are, whatever
\* buttons are pressed in a frame, no frame aborts in canonicalize or in adjust, and the
\* tentative tile of a frame is at most one tile away, on each axis, from the entity's
\* tile before the frame
TentativeInWindow ==
    /\ panic \notin {"precondition", "adjust", "Bad x", "Bad y"}
    /\ tickOp.done =>
        /\ tickOp.new_player_pos.tile_map_x
                \in Neighbours(tickOp.before.position.tile_map_x, TILE_MAP_COLUMNS)
        /\ tickOp.new_player_pos.tile_map_y
                \in Neighbours(tickOp.before.position.tile_map_y, TILE_MAP_ROWS)

\* a frame played with Up and Right pressed by an entity running at more than 17 tiles
\* a second, whose tentative position is in the next tile
TentativeInWindowWitness ==
    /\ tickOp.done
    /\ panic = "none"
    /\ freeFrames = 1
    /\ tickOp.before.velocity.x > 17 * UnitsPerTile
    /\ entity.velocity.y > 0
    /\ entity.direction = "Right"
    /\ tickOp.new_player_pos.tile_map_x # tickOp.before.position.tile_map_x

(***************************************************************************)
(* SpecOrder: the game with several entities, each near a door of chunk    *)
(* (0, 0) or at the player's start; every frame is also computed with the  *)
(* entities processed in another order                                     *)
(***************************************************************************)
\* an entity of state.entities with its entity_alive flag
live_entity(ent, alive) ==
    [position |-> ent.position, velocity |-> ent.velocity, direction |-> ent.direction,
     alive |-> alive]

\* the entities that the frames start from: one leaving the chunk through the door of
\* its last column, one leaving it through the door of its first column, the player at
\* its start, and an entity that is not alive
StartEntities ==
    {live_entity([reset_entity EXCEPT
                    !.position.tile_map_x = from_chunk_offset(0, TILE_MAP_COLUMNS - 1),
                    !.position.tile_map_y = from_chunk_offset(0, RunRow),
                    !.position.tile_rel.x = (2 * UnitsPerTile) \div 5,
                    !.velocity.x = (PLAYER_SPEED * UnitsPerTile) \div 2], TRUE),
     live_entity([reset_entity EXCEPT
                    !.position.tile_map_x = from_chunk_offset(0, 0),
                    !.position.tile_map_y = from_chunk_offset(0, RunRow),
                    !.position.tile_rel.x = 0 - (2 * UnitsPerTile) \div 5,
                    !.velocity.x = 0 - (PLAYER_SPEED * UnitsPerTile) \div 2], TRUE),
     live_entity(reset_entity, TRUE),
     live_entity(reset_entity, FALSE)}

\* the buttons tried in a frame
OrderButtonSets == {{}, {"Up"}}

\* the orders in which the entities can be processed
Orders ==
    {o \in [1..OrderEntities -> 1..OrderEntities] :
        \A i, j \in 1..OrderEntities : o[i] = o[j] => i = j}

\* for entity_index in 0..state.next_entity
IndexOrder == [i \in 1..OrderEntities |-> i]

\* the loop over the entities of _game_update_and_render, for the entities of order in
\* turn: an entity that is not alive is skipped, the others are moved; st is the context
\* and the entities so far
RECURSIVE process_entities(_, _, _)
process_entities(st, order, buttons) ==
    IF order = <<>> \/ st.c.panic # "none" THEN st
    ELSE
    LET entity_index == Head(order)
        before == st.entities[entity_index]
    IN  IF ~before.alive THEN process_entities(st, Tail(order), buttons)
        ELSE
        LET ent == [before EXCEPT !.direction = button_direction(@, buttons)]
            t == tentative_move(ent, button_acceleration(buttons))
            r == move_entity(st.c, ent, t,
                             seeded_draws(seed, st.c.rng_calls, t.new_player_pos.z))
        IN  process_entities([c |-> r.c,
                              entities |-> [st.entities EXCEPT ![entity_index] = r.entity]],
                             Tail(order), buttons)

\* what the claim observes of a frame's outcome: every entity's position and velocity,
\* the keys of the registry and the contents of the tile map of each key
Observed(ents, w) ==
    [entities |-> [i \in DOMAIN ents |->
                    [position |-> ents[i].position, velocity |-> ents[i].velocity]],
     maps |-> [key \in Keys(w) |-> w.tile_maps[find_slot(w, key.pos, key.z)]]]

InitOrder ==
    /\ seed \in Seeds
    /\ \E c \in {first_map(seed)} :
        /\ world = c.world
        /\ memory = c.memory
        /\ rng_calls = c.rng_calls
        /\ panic = c.panic
    /\ worldOp = NoWorldOp
    /\ entities \in [1..OrderEntities -> StartEntities]
    /\ orderOp = NoOrderOp
    /\ looping = "Normal"
    /\ looping_state = <<>>
    /\ firstPass = <<>>
    /\ GameIdle
    /\ MapIdle
    /\ ArenaIdle
    /\ TileIdle
    /\ CanonIdle

\* a frame: the tile map at the camera is fetched, then the entities are processed in
\* index order; orderOp records the outcome of processing them in another order
OrderFrame ==
    /\ panic = "none"
    /\ ticks < MaxOrderTicks
    /\ ticks' = ticks + 1
    /\ \E buttons \in OrderButtonSets, cam \in CameraKeys(entities[1]), order \in Orders :
       \E c1 \in {get_tilemap_at(Context, cam.pos, cam.z,
                                  seeded_draws(seed, rng_calls, cam.z))} :
       \E a \in {process_entities([c |-> c1, entities |-> entities],
                                  IndexOrder, buttons)} :
       \E b \in {process_entities([c |-> c1, entities |-> entities], order, buttons)} :
        /\ world' = a.c.world
        /\ memory' = a.c.memory
        /\ rng_calls' = a.c.rng_calls
        /\ panic' = a.c.panic
        /\ entities' = a.entities
        /\ orderOp' = [done |-> TRUE, order |-> order, panic |-> b.c.panic,
                       observed |-> Observed(b.entities, b.c.world)]
    /\ UNCHANGED <<seed, looping, looping_state, firstPass>>
    /\ UNCHANGED <<entity, tickOp, freeFrames>>
    /\ UNCHANGED <<tileVars, canonVars, worldOp, mapVars, arenaVars>>

NextOrder == OrderFrame

SpecOrder == InitOrder /\ [][NextOrder]_vars

\* C26: after every frame that aborts in neither order, every entity's position and
\* velocity, the keys of the registry and the contents of every tile map are what they
\* are when the live entities are processed in any other order
EntityOrderUnobservable ==
    (orderOp.done /\ panic = "none" /\ orderOp.panic = "none") =>
        Observed(entities, world) = orderOp.observed

(***************************************************************************)
(* SpecReplay: main's loop with its input recording: frames are played,    *)
(* the 'l' key starts a recording (a snapshot of the State and of the      *)
(* memory's bytes), then turns it into a playback that loops over the      *)
(* recorded buttons, then stops it. The player starts at rest or leaving   *)
(* chunk (0, 0) through the door of its last column.                       *)
(***************************************************************************)
\* the Button ids in order
ButtonIds == <<"Up", "Down", "Left", "Right", "DecreaseSpeed", "IncreaseSpeed">>

\* file.write(&[*button as u8]) for each button of one frame
button_bytes(buttons) ==
    [i \in 1..Len(ButtonIds) |-> IF ButtonIds[i] \in buttons THEN 1 ELSE 0]

\* curr_buttons[i] = *x != 0
bytes_buttons(bytes) ==
    {ButtonIds[i] : i \in {j \in 1..Len(ButtonIds) : bytes[j] # 0}}

\* LoopState::write_to_disk: the contents of the file
write_to_disk(ls) ==
    [game_state |-> ls.game_state,
     data_len |-> MEMORY_LENGTH,
     memory |-> ls.memory,
     num_buttons |-> Len(ls.buttons),
     buttons |-> [i \in 1..Len(ls.buttons) |-> button_bytes(ls.buttons[i])]]

\* LoopState::read_from_disk: the LoopState read from the file
read_from_disk(file) ==
    [game_state |-> file.game_state,
     memory |-> file.memory,
     input_index |-> 0,
     buttons |-> [i \in 1..file.num_buttons |-> bytes_buttons(file.buttons[i])]]

\* state.clone(): the player and the Rng
game_state == [entity |-> entity, rng_calls |-> rng_calls]

\* the players that the frames start from
ReplayEntities ==
    {reset_entity,
     [reset_entity EXCEPT
        !.position.tile_map_x = from_chunk_offset(0, TILE_MAP_COLUMNS - 1),
        !.position.tile_map_y = from_chunk_offset(0, RunRow),
        !.position.tile_rel.x = (2 * UnitsPerTile) \div 5,
        !.velocity.x = (PLAYER_SPEED * UnitsPerTile) \div 2]}

\* the buttons tried in a frame
ReplayButtonSets == {{}, {"Right"}}

\* the core state: the entity, the state of the Rng, the keys of the registry, the
\* contents of the tile map of each key and the next free offset of the memory
CoreOf(ent, calls, w, mem) ==
    [entity |-> ent,
     rng_calls |-> calls,
     maps |-> [key \in Keys(w) |-> w.tile_maps[find_slot(w, key.pos, key.z)]],
     next_allocation |-> mem.next_allocation]

InitReplay ==
    /\ seed \in Seeds
    /\ \E c \in {first_map(seed)} :
        /\ world = c.world
        /\ memory = c.memory
        /\ rng_calls = c.rng_calls
        /\ panic = c.panic
    /\ worldOp = NoWorldOp
    /\ entity \in ReplayEntities
    /\ ticks = 0
    /\ freeFrames = 0
    /\ tickOp = NoTickOp
    /\ entities = <<>>
    /\ orderOp = NoOrderOp
    /\ looping = "Normal"
    /\ looping_state = [game_state |-> [entity |-> reset_entity, rng_calls |-> 0],
                        memory |-> <<>>, input_index |-> 0, buttons |-> <<>>]
    /\ firstPass = <<>>
    /\ MapIdle
    /\ ArenaIdle
    /\ TileIdle
    /\ CanonIdle

\* game_update_and_render called by main's loop with the memory and Rng of context c0,
\* the player ent0 and the buttons pressed
PlayFrame(c0, ent0, buttons) ==
    /\ ticks < MaxReplayTicks
    /\ ticks' = ticks + 1
    /\ FrameFrom(c0, ent0, {buttons}, SeededRng)
    /\ UNCHANGED <<freeFrames, seed, entities, orderOp>>

\* an iteration of main's loop in GameplayState::Normal
NormalFrame ==
    /\ looping = "Normal"
    /\ \E buttons \in ReplayButtonSets : PlayFrame(Context, entity, buttons)
    /\ UNCHANGED <<looping, looping_state, firstPass>>

\* an iteration in which 'l' is released in GameplayState::Normal: the State and the
\* bytes of the memory are copied into the LoopState, and the frame is the first one
\* recorded
StartRecording ==
    /\ looping = "Normal"
    /\ looping' = "LoopRecording"
    /\ \E buttons \in ReplayButtonSets :
        /\ looping_state' = [game_state |-> game_state, memory |-> world,
                             input_index |-> 0, buttons |-> <<buttons>>]
        /\ PlayFrame(Context, entity, buttons)
    /\ firstPass' = <<CoreOf(entity', rng_calls', world', memory')>>

\* an iteration in GameplayState::LoopRecording
RecordingFrame ==
    /\ looping = "LoopRecording"
    /\ \E buttons \in ReplayButtonSets :
        /\ looping_state' = [looping_state EXCEPT !.buttons = Append(@, buttons)]
        /\ PlayFrame(Context, entity, buttons)
    /\ firstPass' = Append(firstPass, CoreOf(entity', rng_calls', world', memory'))
    /\ UNCHANGED looping

\* the LoopPlayback arm of main's loop for the LoopState ls: at the beginning of the
\* loop the bytes of the memory and the State are restored; the buttons are the next
\* recorded ones
PlaybackStep(ls) ==
    /\ looping_state' = [ls EXCEPT !.input_index = (@ + 1) % Len(ls.buttons)]
    /\ \E c0 \in {IF ls.input_index = 0
                   THEN [Context EXCEPT !.world = ls.memory,
                                        !.rng_calls = ls.game_state.rng_calls]
                   ELSE Context} :
       \E ent0 \in {IF ls.input_index = 0 THEN ls.game_state.entity ELSE entity} :
            PlayFrame(c0, ent0, ls.buttons[ls.input_index + 1])
    /\ UNCHANGED firstPass

\* an iteration in which 'l' is released in GameplayState::LoopRecording: the LoopState
\* is written to disk and read back, and the playback starts
StartPlayback ==
    /\ looping = "LoopRecording"
    /\ looping' = "LoopPlayback"
    /\ \E ls \in {read_from_disk(write_to_disk(looping_state))} : PlaybackStep(ls)

\* an iteration in GameplayState::LoopPlayback
PlaybackFrame ==
    /\ looping = "LoopPlayback"
    /\ UNCHANGED looping
    /\ PlaybackStep(looping_state)

\* an iteration in which 'l' is released in GameplayState::LoopPlayback: the buttons are
\* cleared and the game goes on from where the playback is
StopPlayback ==
    /\ looping = "LoopPlayback"
    /\ looping' = "Normal"
    /\ PlayFrame(Context, entity, {})
    /\ UNCHANGED <<looping_state, firstPass>>

NextReplay ==
    \/ NormalFrame
    \/ StartRecording
    \/ RecordingFrame
    \/ StartPlayback
    \/ PlaybackFrame
    \/ StopPlayback

SpecReplay == InitReplay /\ [][NextReplay]_vars

\* the frame of the recording that the last frame of the playback replayed
ReplayedFrame ==
    IF looping_state.input_index = 0 THEN Len(looping_state.buttons)
    ELSE looping_state.input_index

\* C28: after every frame of a playback the core state (the entity, the state of the
\* Rng, the keys of the registry, the contents of the tile maps and the next free offset
\* of the memory) is what it was after the same frame of the recording, so the memory
\* does not grow from one cycle of the playback to the next
ReplayReproduces ==
    looping = "LoopPlayback" =>
        CoreOf(entity, rng_calls, world, memory) = firstPass[ReplayedFrame]

(***************************************************************************)
(* SpecCanon: canonicalize applied once to a WorldPosition                 *)
(***************************************************************************)
CanonRels == (0 - MaxRelArg)..MaxRelArg

\* the tiles and floor of the positions tried: the reset position, the first tile of
\* the world and its last tile
CanonTiles ==
    {[tile_map_x |-> reset_position.tile_map_x, tile_map_y |-> reset_position.tile_map_y,
      z |-> 0],
     [tile_map_x |-> from_chunk_offset(0, 0), tile_map_y |-> from_chunk_offset(0, 0),
      z |-> 1],
     [tile_map_x |-> from_chunk_offset(MAX_NUM_CHUNKS - 1, TILE_MAP_COLUMNS - 1),
      tile_map_y |-> from_chunk_offset(MAX_NUM_CHUNKS - 1, TILE_MAP_ROWS - 1), z |-> 0]}

InitCanon ==
    /\ PlatformIdle
    /\ \E t \in CanonTiles, rx \in CanonRels, ry \in CanonRels :
         cpos = [tile_map_x |-> t.tile_map_x, tile_map_y |-> t.tile_map_y, z |-> t.z,
                 tile_rel |-> [x |-> rx, y |-> ry]]
    /\ cOp = [done |-> FALSE, before |-> reset_position, panic |-> "none"]
    /\ TileIdle
    /\ WorldIdle
    /\ GameIdle
    /\ MapIdle
    /\ ArenaIdle

Canonicalize ==
    /\ ~cOp.done
    /\ LET r == canonicalize(cpos) IN
        /\ cpos' = r.pos
        /\ cOp' = [done |-> TRUE, before |-> cpos, panic |-> r.panic]
    /\ UNCHANGED <<tileVars, worldVars, gameVars, mapVars, arenaVars,
                   platformVars>>

NextCanon == Canonicalize

SpecCanon == InitCanon /\ [][NextCanon]_vars

\* C8 (as claimed): canonicalize leaves every position whose tile_rel components both lie
\* in (-1, 1) unchanged.
CanonIdempotentOnOpenUnit ==
    (/\ cOp.done
     /\ Abs(cOp.before.tile_rel.x) < UnitsPerTile
     /\ Abs(cOp.before.tile_rel.y) < UnitsPerTile)
    => (cOp.panic = "none" /\ cpos = cOp.before)

\* C8 (amended): canonicalize returns and leaves every position whose tile_rel components
\* both lie in (-0.5, 0.5) unchanged (tile x, tile y, floor and tile_rel).
CanonIdempotentOnOpenHalf ==
    (/\ cOp.done
     /\ 2 * Abs(cOp.before.tile_rel.x) < UnitsPerTile
     /\ 2 * Abs(cOp.before.tile_rel.y) < UnitsPerTile)
    => (cOp.panic = "none" /\ cpos = cOp.before)

CanonIdempotentOnOpenHalfWitness ==
    /\ cOp.done
    /\ cOp.before.tile_rel.x = (UnitsPerTile - 1) \div 2
    /\ cOp.before.tile_rel.y = 0 - ((UnitsPerTile - 1) \div 2)
    /\ cOp.before.z = 1
    /\ cpos = cOp.before

\* C9: whenever canonicalize returns, both components of tile_rel lie strictly inside
\* (-1, 1); the "Bad x" / "Bad y" aborts never happen.
CanonPostcondition ==
    /\ (cOp.done /\ cOp.panic = "none")
        => (Abs(cpos.tile_rel.x) < UnitsPerTile /\ Abs(cpos.tile_rel.y) < UnitsPerTile)
    /\ ~(cOp.panic \in {"Bad x", "Bad y"})

CanonPostconditionWitness ==
    /\ cOp.done
    /\ cOp.panic = "none"
    /\ Abs(cOp.before.tile_rel.x) > UnitsPerTile
    /\ Abs(cOp.before.tile_rel.y) > UnitsPerTile
    /\ Abs(cpos.tile_rel.x) < UnitsPerTile
    /\ cpos.tile_map_x # cOp.before.tile_map_x

\* a tile_rel component strictly inside (-1.5, 1.5)
InOpenWindow(x) ==
    2 * Abs(x) < 3 * UnitsPerTile

\* C10 (as claimed): canonicalize aborts if and only if some component of tile_rel lies
\* outside the open window (-1.5, 1.5) on entry; and for every entry value that passes
\* the precondition check, the step passed to adjust on each axis is -1, 0 or +1 and
\* canonicalize completes.
CanonAbortsIffOutsideWindow ==
    cOp.done =>
        /\ (cOp.panic # "none")
            <=> ~(InOpenWindow(cOp.before.tile_rel.x) /\ InOpenWindow(cOp.before.tile_rel.y))
        /\ (cOp.panic # "precondition")
            => /\ round(cOp.before.tile_rel.x) \in {-1, 0, 1}
               /\ round(cOp.before.tile_rel.y) \in {-1, 0, 1}
               /\ cOp.panic = "none"

(***************************************************************************)
(* SpecTile: from_chunk_offset and adjust applied to one AbsoluteTile      *)
(***************************************************************************)
ChunkArgs ==
    (0..MaxChunkArg) \cup
    {MAX_NUM_CHUNKS - 2, MAX_NUM_CHUNKS - 1, MAX_NUM_CHUNKS, HiRange, HiRange + 1}

OffsetArgs == (0..MaxOffsetArg) \cup {CHUNK_MASK, CHUNK_MASK + 1, CHUNK_MASK + 2}

AdjustArgs == (0 - MaxAdjustArg)..MaxAdjustArg

InitTile ==
    /\ PlatformIdle
    /\ tileMax \in {TILE_MAP_COLUMNS, TILE_MAP_ROWS}
    /\ tile = from_chunk_offset(0, 0)
    /\ tileOp = NoTileOp
    /\ tileCalls = 0
    /\ CanonIdle
    /\ WorldIdle
    /\ GameIdle
    /\ MapIdle
    /\ ArenaIdle

TileFromChunkOffset ==
    /\ ~tileOp.panic
    /\ tileCalls < MaxTileCalls
    /\ tileCalls' = tileCalls + 1
    /\ \E chunk \in ChunkArgs, offset \in OffsetArgs :
        /\ tile' = from_chunk_offset(chunk, offset)
        /\ tileOp' = [name |-> "from_chunk_offset", chunk |-> chunk, offset |-> offset,
                      val |-> 0, before |-> tile, panic |-> FALSE]
    /\ UNCHANGED <<tileMax, canonVars, worldVars, gameVars, mapVars, arenaVars,
                   platformVars>>

TileAdjust ==
    /\ ~tileOp.panic
    /\ tileCalls < MaxTileCalls
    /\ tileCalls' = tileCalls + 1
    /\ \E val \in AdjustArgs :
        LET r == adjust(tile, val, MAX_NUM_CHUNKS, tileMax) IN
        /\ tile' = r.tile
        /\ tileOp' = [name |-> "adjust", chunk |-> 0, offset |-> 0,
                      val |-> val, before |-> tile, panic |-> r.panic]
    /\ UNCHANGED <<tileMax, canonVars, worldVars, gameVars, mapVars, arenaVars,
                   platformVars>>

NextTile == TileFromChunkOffset \/ TileAdjust

SpecTile == InitTile /\ [][NextTile]_vars

\* chunk_id < MAX_CHUNK_ID and offset < MAX_OFFSET
ValidTile(t, MAX_CHUNK_ID, MAX_OFFSET) ==
    /\ into_chunk(t).chunk_id < MAX_CHUNK_ID
    /\ into_chunk(t).offset < MAX_OFFSET

\* the position of a tile on the ring of MAX_CHUNK_ID * MAX_OFFSET tiles of its axis
LinearIndex(t, MAX_OFFSET) ==
    into_chunk(t).chunk_id * MAX_OFFSET + into_chunk(t).offset

\* C4: for every chunk in [0, MAX_CHUNK) and offset in [0, MAX_OFFSET),
\* from_chunk_offset(chunk, offset).into_chunk() is exactly (chunk, offset).
RoundTrip ==
    (/\ tileOp.name = "from_chunk_offset"
     /\ tileOp.chunk < MAX_NUM_CHUNKS
     /\ tileOp.offset < tileMax)
    => into_chunk(tile) = [chunk_id |-> tileOp.chunk, offset |-> tileOp.offset]

RoundTripWitness ==
    /\ tileOp.name = "from_chunk_offset"
    /\ tileOp.chunk = MAX_NUM_CHUNKS - 1
    /\ tileOp.offset = tileMax - 1
    /\ into_chunk(tile) = [chunk_id |-> MAX_NUM_CHUNKS - 1, offset |-> tileMax - 1]

\* C5: adjust(delta), delta in {-1, 0, 1}, on a valid tile does not abort and moves the
\* tile by exactly delta on the ring of MAX_CHUNK * MAX_OFFSET tiles (so +1 at the last
\* offset gives offset 0 of the next chunk, the last chunk wrapping to chunk 0, -1 at
\* offset 0 gives the last offset of the previous chunk, chunk 0 wrapping to
\* MAX_CHUNK - 1, and otherwise only the offset changes); the result is a valid tile.
AdjustMovesByDelta ==
    (/\ tileOp.name = "adjust"
     /\ tileOp.val \in {-1, 0, 1}
     /\ ValidTile(tileOp.before, MAX_NUM_CHUNKS, tileMax))
    => /\ ~tileOp.panic
       /\ ValidTile(tile, MAX_NUM_CHUNKS, tileMax)
       /\ LinearIndex(tile, tileMax)
            = (LinearIndex(tileOp.before, tileMax) + tileOp.val) % (MAX_NUM_CHUNKS * tileMax)
       /\ (tileOp.val = 0 => tile = tileOp.before)
       /\ (into_chunk(tile).chunk_id # into_chunk(tileOp.before).chunk_id
            => \/ tileOp.val = 1 /\ into_chunk(tileOp.before).offset = tileMax - 1
                  /\ into_chunk(tile).offset = 0
               \/ tileOp.val = -1 /\ into_chunk(tileOp.before).offset = 0
                  /\ into_chunk(tile).offset = tileMax - 1)

AdjustMovesByDeltaWitness ==
    /\ tileOp.name = "adjust"
    /\ tileOp.val = 1
    /\ into_chunk(tileOp.before) = [chunk_id |-> MAX_NUM_CHUNKS - 1, offset |-> tileMax - 1]
    /\ into_chunk(tile) = [chunk_id |-> 0, offset |-> 0]

\* C6 (as claimed): every AbsoluteTile made by from_chunk_offset with arbitrary arguments,
\* and every tile reached from it by adjust(+1)/adjust(-1), decodes to
\* offset < MAX_OFFSET and chunk_id < MAX_CHUNK.
TileAlwaysInRange ==
    ValidTile(tile, MAX_NUM_CHUNKS, tileMax)

\* C7: adjust(delta) with |delta| > 1 aborts, and the tile is as it was before the call.
AdjustContractViolation ==
    (tileOp.name = "adjust" /\ ~(tileOp.val \in {-1, 0, 1}))
    => (tileOp.panic /\ tile = tileOp.before)

AdjustContractViolationWitness ==
    /\ tileOp.name = "adjust"
    /\ tileOp.val = 2
    /\ tileOp.panic
    /\ into_chunk(tile).offset = tileMax - 1


\* on one axis, the tile after is `step` tiles after the tile before on the ring of the
\* axis, and tile_rel after is tile_rel before less `step` tiles
MovedBy(step, tile_before, rel_before, tile_after, rel_after, MAX_OFFSET) ==
    /\ LinearIndex(tile_after, MAX_OFFSET)
         = (LinearIndex(tile_before, MAX_OFFSET) + step + MAX_NUM_CHUNKS * MAX_OFFSET)
             % (MAX_NUM_CHUNKS * MAX_OFFSET)
    /\ rel_after = rel_before - step * UnitsPerTile

\* the whole number of tiles nearest to x
NearestStep(x) ==
    CHOOSE step \in -2..2 :
        \A other \in -2..2 : Abs(x - step * UnitsPerTile) <= Abs(x - other * UnitsPerTile)
                               /\ (Abs(x - step * UnitsPerTile) = Abs(x - other * UnitsPerTile)
                                     => Abs(step) >= Abs(other))

\* C29: whenever canonicalize returns, on each axis the tile has moved by exactly the
\* rounded step and tile_rel has decreased by the same step, so that the tile's linear
\* index plus tile_rel is what it was, modulo the size of the world; the floor is
\* unchanged
CanonPreservesPosition ==
    (cOp.done /\ cOp.panic = "none") =>
        /\ cpos.z = cOp.before.z
        /\ MovedBy(NearestStep(cOp.before.tile_rel.x),
                   cOp.before.tile_map_x, cOp.before.tile_rel.x,
                   cpos.tile_map_x, cpos.tile_rel.x, TILE_MAP_COLUMNS)
        /\ MovedBy(NearestStep(cOp.before.tile_rel.y),
                   cOp.before.tile_map_y, cOp.before.tile_rel.y,
                   cpos.tile_map_y, cpos.tile_rel.y, TILE_MAP_ROWS)

\* canonicalize has returned for a position on the last tile of the world on floor 0,
\* one step up on the x axis (the tile wraps to the first tile of the world) and no step
\* on the y axis
CanonPreservesPositionWitness ==
    /\ cOp.done
    /\ cOp.panic = "none"
    /\ cOp.before.tile_map_x = from_chunk_offset(MAX_NUM_CHUNKS - 1, TILE_MAP_COLUMNS - 1)
    /\ cOp.before.tile_rel.x = UnitsPerTile
    /\ cOp.before.tile_rel.y = 0 - 1
    /\ cpos.tile_map_x = from_chunk_offset(0, 0)
    /\ cpos.tile_rel = [x |-> 0, y |-> 0 - 1]

(***************************************************************************)
(* SpecTileMap: get_tile_at and set_tile_at called on one TileMap          *)
(***************************************************************************)
\* u16::MAX, the largest x or y that can be passed
U16_MAX == 65535

\* let y = HEIGHT - 1 - usize::from(y): the subtraction overflows usize when y > HEIGHT - 1.
\* A build with overflow checks panics there; a build without them wraps, and the row
\* is then out of the data
sub_overflows(y) == TILE_MAP_ROWS - 1 - y < 0

\* get_tile_at in a build with (overflow_checks) or without overflow checks
get_tile_at_build(tm, pos, overflow_checks) ==
    IF overflow_checks /\ sub_overflows(pos.y)
    THEN [tile |-> "Empty", panic |-> "attempt to subtract with overflow"]
    ELSE get_tile_at(tm, pos)

\* set_tile_at in a build with (overflow_checks) or without overflow checks
set_tile_at_build(tm, x, y, val, overflow_checks) ==
    IF overflow_checks /\ sub_overflows(y)
    THEN [tm |-> tm, panic |-> "attempt to subtract with overflow"]
    ELSE set_tile_at(tm, x, y, val)

\* the x and y passed: the first column and an interior column, the first and the last
\* row, the first value out of range and the largest value
XArgs == {0, 6, TILE_MAP_COLUMNS, U16_MAX}

YArgs == {0, TILE_MAP_ROWS - 1, TILE_MAP_ROWS, U16_MAX}

\* the TileMap under test: a fresh allocation, or a tile map as init_tile_map's loops
\* leave it
InitialTileMaps ==
    {zeroed_tile_map, init_loops[[ladder |-> {<<6, 6>>}, wall |-> WallSites]].tm}

InitTileMap ==
    /\ PlatformIdle
    /\ tmap \in InitialTileMaps
    /\ mapOp = NoMapOp
    /\ TileIdle
    /\ CanonIdle
    /\ WorldIdle
    /\ GameIdle
    /\ ArenaIdle

GetTileAt ==
    /\ panic = "none"
    /\ \E x \in XArgs, y \in YArgs, overflow_checks \in BOOLEAN :
       \E r \in {get_tile_at_build(tmap, [x |-> x, y |-> y], overflow_checks)} :
        /\ panic' = r.panic
        /\ mapOp' = [name |-> "get", x |-> x, y |-> y, val |-> "Empty", before |-> tmap,
                     tile |-> r.tile, overflow_checks |-> overflow_checks]
    /\ UNCHANGED <<tmap, world, memory, rng_calls, worldOp>>
    /\ UNCHANGED <<tileVars, canonVars, gameVars, arenaVars,
                   platformVars>>

SetTileAt ==
    /\ panic = "none"
    /\ \E x \in XArgs, y \in YArgs, val \in TileType, overflow_checks \in BOOLEAN :
       \E r \in {set_tile_at_build(tmap, x, y, val, overflow_checks)} :
        /\ tmap' = r.tm
        /\ panic' = r.panic
        /\ mapOp' = [name |-> "set", x |-> x, y |-> y, val |-> val, before |-> tmap,
                     tile |-> "Empty", overflow_checks |-> overflow_checks]
    /\ UNCHANGED <<world, memory, rng_calls, worldOp>>
    /\ UNCHANGED <<tileVars, canonVars, gameVars, arenaVars,
                   platformVars>>

NextTileMap == GetTileAt \/ SetTileAt

SpecTileMap == InitTileMap /\ [][NextTileMap]_vars

\* whether (x, y) is a cell of the tile map
InRange(x, y) == x < TILE_MAP_COLUMNS /\ y < TILE_MAP_ROWS

\* C17: set_tile_at(x, y, val) with (x, y) in range returns, stores val in row
\* TILE_MAP_ROWS - 1 - y, column x of the data and leaves every other cell of the data as
\* it was; get_tile_at(x, y) with (x, y) in range returns what that row and column hold;
\* and get_tile_at for any cell in range returns val at (x, y) after set_tile_at(x, y,
\* val) and what it returned before the call at every other cell
SetGetRoundTrip ==
    /\ (mapOp.name = "set" /\ InRange(mapOp.x, mapOp.y)) =>
        /\ panic = "none"
        /\ tmap[TILE_MAP_ROWS - 1 - mapOp.y][mapOp.x] = mapOp.val
        /\ \A row \in 0..(TILE_MAP_ROWS - 1), col \in 0..(TILE_MAP_COLUMNS - 1) :
              <<row, col>> # <<TILE_MAP_ROWS - 1 - mapOp.y, mapOp.x>> =>
                  tmap[row][col] = mapOp.before[row][col]
        /\ \A cell \in Cells :
              get_tile_at(tmap, cell) =
                  IF cell = [x |-> mapOp.x, y |-> mapOp.y]
                  THEN [tile |-> mapOp.val, panic |-> "none"]
                  ELSE get_tile_at(mapOp.before, cell)
    /\ (mapOp.name = "get" /\ InRange(mapOp.x, mapOp.y)) =>
        /\ panic = "none"
        /\ mapOp.tile = tmap[TILE_MAP_ROWS - 1 - mapOp.y][mapOp.x]

\* a Ladder was stored at (6, 0), in the last row of the data, over the Wall of a
\* generated tile map
SetGetRoundTripWitness ==
    /\ mapOp.name = "set" /\ mapOp.x = 6 /\ mapOp.y = 0 /\ mapOp.val = "Ladder"
    /\ mapOp.before[TILE_MAP_ROWS - 1][6] = "Wall"
    /\ tmap[TILE_MAP_ROWS - 1][6] = "Ladder"
    /\ tmap[0][6] = "Wall"
    /\ panic = "none"

\* C18: get_tile_at and set_tile_at called with x >= TILE_MAP_COLUMNS or
\* y >= TILE_MAP_ROWS abort with a message that names the exceeded bound and its value
\* (HEIGHT or WIDTH), and the tile map is as it was before the call
OutOfRangeBoundsError ==
    (mapOp.name # "none" /\ ~InRange(mapOp.x, mapOp.y)) =>
        /\ tmap = mapOp.before
        /\ IF mapOp.y >= TILE_MAP_ROWS
           THEN panic = "larger than HEIGHT"
           ELSE panic = "larger than WIDTH"


(***************************************************************************)
(* SpecMemory: Memory::alloc::<T>() called for types of any size            *)
(***************************************************************************)
\* the Memory at the start: new, or with FreeBlocks blocks of 16 bytes left after
\* earlier allocations
InitialMemories ==
    {[next_allocation |-> n, data_len |-> MEMORY_LENGTH] :
        n \in {0, MEMORY_LENGTH - 16 * FreeBlocks}}

InitMemory ==
    /\ PlatformIdle
    /\ memory \in InitialMemories
    /\ panic = "none"
    /\ allocs = <<>>
    /\ allocOp = [NoAllocOp EXCEPT !.before = memory]
    /\ world = init_world
    /\ rng_calls = 0
    /\ worldOp = NoWorldOp
    /\ TileIdle
    /\ CanonIdle
    /\ GameIdle
    /\ MapIdle

Alloc ==
    /\ panic = "none"
    /\ Len(allocs) < MaxAllocCalls
    /\ \E size \in 0..MaxAllocSize :
       \E a \in {alloc(memory, size)} :
        /\ memory' = a.memory
        /\ panic' = a.panic
        /\ allocs' = IF a.panic = "none"
                     THEN Append(allocs, [offset |-> a.result, size |-> size])
                     ELSE allocs
        /\ allocOp' = [done |-> TRUE, size |-> size, result |-> a.result,
                       before |-> memory]
    /\ UNCHANGED <<world, rng_calls, worldOp>>
    /\ UNCHANGED <<tileVars, canonVars, gameVars, mapVars,
                   platformVars>>

NextMemory == Alloc

SpecMemory == InitMemory /\ [][NextMemory]_vars

\* the bytes of an allocation
Bytes(a) == a.offset..(a.offset + a.size - 1)

\* C19: a call never decreases next_allocation; next_allocation is a multiple of 16 in
\* every state; every offset returned is a multiple of 16; and no two allocations share
\* a byte
AllocMonotonicAligned ==
    /\ allocOp.done => memory.next_allocation >= allocOp.before.next_allocation
    /\ memory.next_allocation % 16 = 0
    /\ \A i \in 1..Len(allocs) : allocs[i].offset % 16 = 0
    /\ \A i, j \in 1..Len(allocs) :
            i # j => Bytes(allocs[i]) \cap Bytes(allocs[j]) = {}
    /\ \A i \in 1..Len(allocs) :
            allocs[i].offset + allocs[i].size <= memory.next_allocation

\* three allocations were made in a row, the second of a size that is not a multiple
\* of 16
AllocMonotonicAlignedWitness ==
    /\ panic = "none"
    /\ Len(allocs) = 3
    /\ allocs[2].size % 16 # 0
    /\ allocs[3].offset > allocs[2].offset + allocs[2].size
    /\ allocs[3].size > 0

\* C20: a call aborts if and only if next_allocation + size > data_len, and then
\* leaves next_allocation as it was; an allocation made ends at or before data_len
AllocAbortsIffExceeds ==
    allocOp.done =>
        /\ (panic # "none") <=>
                (allocOp.before.next_allocation + allocOp.size > allocOp.before.data_len)
        /\ panic # "none" => memory = allocOp.before
        /\ panic = "none" => /\ allocOp.result >= 0
                             /\ allocOp.result + allocOp.size <= memory.data_len

====
